---- MODULE Spec2Model ----
(***************************************************************************)
(* AskSEC: the query orchestrator (src/src/rag/chain.py, SECFilingRAG)     *)
(* and the 10-K section extractor (src/src/data/parser.py, SEC10KParser).  *)
(*                                                                         *)
(* Strings.  A ticker is a sequence of one-character strings.  A question  *)
(* is only ever trimmed and measured, so it is kept as the three lengths   *)
(* [lead, core, trail]: its leading whitespace, the span from its first to *)
(* its last non-whitespace character (0 when there is none) and its        *)
(* trailing whitespace.  A filing text is a run-length encoded string: a   *)
(* sequence of [c, n], n copies of the character c.                        *)
(***************************************************************************)
EXTENDS Integers, Sequences, FiniteSets, TLC

VARIABLES
    chat_history,   \* SECFilingRAG.chat_history: sequence of [question, answer]
    call,           \* the last call made on the SECFilingRAG instance, with its arguments
    outcome,        \* how that call ended: what it returned or raised
    retriever_log,  \* get_retriever / retriever.invoke calls made during the last call
    llm_calls,      \* prompts handed to llm.invoke during the last call
    text,           \* the filing text handed to SEC10KParser.parse_filing
    parsed,         \* what parse_filing returned for it (done = FALSE before the call)
    chunker,        \* the DocumentChunker, with the arguments it was constructed from
    chunked,        \* the last call made on the chunker and the documents it returned
    previous,       \* ticker, item number and chunk ids of the chunk_section call before it
    parser,         \* the SEC10KParser instance: its fields
    threads         \* per thread, the frame of the call it is in: arguments and locals

vars == <<chat_history, call, outcome, retriever_log, llm_calls, text, parsed,
          chunker, chunked, previous, parser, threads>>

--------------------------------------------------------------------------
(* Bounds of the model *)

MaxHistory == 2
MaxDocs == 3
MaxPad == 2
MaxTickerLen == 6
MaxBlocks == 4
BodyLength == 501
MaxContentLen == 4
MaxCleanBlocks == 5
MaxQuoteBlocks == 3

--------------------------------------------------------------------------
(* Program constants *)

MAX_QUESTION_LENGTH == 2000
RETRIEVAL_K == 6
EXCERPT_LENGTH == 200
MIN_SECTION_LENGTH == 500
CHUNK_SIZE == 1500
CHUNK_OVERLAP == 300
CHUNK_ID_LENGTH == 12
APOLOGY == "I encountered an error generating a response. Please try again."

--------------------------------------------------------------------------
(* Characters *)

UpperLetters ==
    {"A","B","C","D","E","F","G","H","I","J","K","L","M",
     "N","O","P","Q","R","S","T","U","V","W","X","Y","Z"}

ToUpper ==
    [c \in {"a","b","c","d","e","f","g","h","i","j","k","l","m",
            "n","o","p","q","r","s","t","u","v","w","x","y","z"} |->
        CASE c = "a" -> "A" [] c = "b" -> "B" [] c = "c" -> "C" [] c = "d" -> "D"
          [] c = "e" -> "E" [] c = "f" -> "F" [] c = "g" -> "G" [] c = "h" -> "H"
          [] c = "i" -> "I" [] c = "j" -> "J" [] c = "k" -> "K" [] c = "l" -> "L"
          [] c = "m" -> "M" [] c = "n" -> "N" [] c = "o" -> "O" [] c = "p" -> "P"
          [] c = "q" -> "Q" [] c = "r" -> "R" [] c = "s" -> "S" [] c = "t" -> "T"
          [] c = "u" -> "U" [] c = "v" -> "V" [] c = "w" -> "W" [] c = "x" -> "X"
          [] c = "y" -> "Y" [] c = "z" -> "Z"]

\* str.upper() on one character
UpperChar(c) == IF c \in DOMAIN ToUpper THEN ToUpper[c] ELSE c

\* what str.strip() removes and the regular expression class \s matches
Whitespace == {" ", "\t", "\n"}

Digits == {"0","1","2","3","4","5","6","7","8","9"}

\* the characters U+2014 and U+2013, each one character of a text
EmDash == "u2014"
EnDash == "u2013"
\* the curly quotes U+201C, U+201D, U+2018, U+2019
LeftDoubleQuote == "u201C"
RightDoubleQuote == "u201D"
LeftSingleQuote == "u2018"
RightSingleQuote == "u2019"

\* str.upper() on a sequence of characters
Upper(s) == [i \in DOMAIN s |-> UpperChar(s[i])]

RECURSIVE LStrip(_)
LStrip(s) == IF s # <<>> /\ Head(s) \in Whitespace THEN LStrip(Tail(s)) ELSE s

RECURSIVE RStrip(_)
RStrip(s) ==
    IF s # <<>> /\ s[Len(s)] \in Whitespace THEN RStrip(SubSeq(s, 1, Len(s) - 1)) ELSE s

\* str.strip() on a sequence of characters
Strip(s) == RStrip(LStrip(s))

--------------------------------------------------------------------------
(* Values *)

Absent == [present |-> FALSE, s |-> <<>>]
Some(s) == [present |-> TRUE, s |-> s]

Ok(v) == [ok |-> TRUE, value |-> v, error |-> "", msg |-> ""]
Raise(dflt, e, m) == [ok |-> FALSE, value |-> dflt, error |-> e, msg |-> m]

\* len(question), question.strip()
QLen(q) == q.lead + q.core + q.trail
QStrip(q) == [lead |-> 0, core |-> q.core, trail |-> 0]

--------------------------------------------------------------------------
(* SECFilingRAG: validation *)

\* TICKER_PATTERN = re.compile(r"^[A-Z]{1,5}$"), used with .match: $ also
\* matches just before a final newline
TickerPatternMatch(s) ==
    LET Letters(u) == Len(u) \in 1..5 /\ \A i \in DOMAIN u : u[i] \in UpperLetters
    IN  \/ Letters(s)
        \/ s # <<>> /\ s[Len(s)] = "\n" /\ Letters(SubSeq(s, 1, Len(s) - 1))

_validate_ticker(ticker) ==
    IF ~ticker.present THEN Ok(Absent)
    ELSE LET t == Upper(Strip(ticker.s))
         IN  IF ~TickerPatternMatch(t)
             THEN Raise(Absent, "ValueError", "Invalid ticker format")
             ELSE Ok(Some(t))

_validate_question_raw_length(question) ==
    IF QLen(question) = 0 \/ QLen(QStrip(question)) = 0
    THEN Raise(question, "ValueError", "Question cannot be empty")
    ELSE IF QLen(question) > MAX_QUESTION_LENGTH
         THEN Raise(question, "ValueError", "Question too long")
         ELSE Ok(QStrip(question))

_validate_question(question) ==
    IF QLen(question) = 0 \/ QLen(QStrip(question)) = 0
    THEN Raise(question, "ValueError", "Question cannot be empty")
    ELSE LET q == QStrip(question)
         IN  IF QLen(q) > MAX_QUESTION_LENGTH
             THEN Raise(q, "ValueError", "Question too long")
             ELSE Ok(q)

ValidateInputs_question_only(question, filter_ticker) ==
    LET vq == _validate_question(question)
    IN  IF ~vq.ok THEN [ok |-> FALSE, question |-> vq.value, filter_ticker |-> Absent,
                        error |-> vq.error, msg |-> vq.msg]
        ELSE [ok |-> TRUE, question |-> vq.value, filter_ticker |-> Absent,
              error |-> "", msg |-> ""]

\* query, "Validate inputs": the question first, then the ticker
ValidateInputs(question, filter_ticker) ==
    LET vq == _validate_question(question)
        vt == _validate_ticker(filter_ticker)
    IN  IF ~vq.ok THEN [ok |-> FALSE, question |-> vq.value, filter_ticker |-> Absent,
                        error |-> vq.error, msg |-> vq.msg]
        ELSE IF ~vt.ok THEN [ok |-> FALSE, question |-> vq.value, filter_ticker |-> Absent,
                             error |-> vt.error, msg |-> vt.msg]
        ELSE [ok |-> TRUE, question |-> vq.value, filter_ticker |-> vt.value,
              error |-> "", msg |-> ""]

--------------------------------------------------------------------------
(* Retrieved passages (langchain Document: page_content, metadata) *)

NoneValue == "<None>"

\* dict.get(key, default) on a metadata dict
Get(md, key, dflt) == IF key \in DOMAIN md THEN md[key] ELSE dflt

\* page_content is [base, len]: the first len characters of the text named base
Content(b, l) == [base |-> b, len |-> l]

AppleRisk == [ticker |-> "AAPL", company_name |-> "Apple Inc.",
              filing_date |-> "2025-01-15", item_number |-> "1A",
              item_title |-> "Risk Factors"]

\* The passages of the index: three chunks of one section (one source), and a
\* chunk of another filing
Corpus ==
    { [page_content |-> Content("c1", 450), metadata |-> AppleRisk],
      [page_content |-> Content("c2", 200), metadata |-> AppleRisk],
      [page_content |-> Content("c3", 9), metadata |-> AppleRisk],
      [page_content |-> Content("c4", 201),
       metadata |-> [ticker |-> "MSFT", company_name |-> "Microsoft",
                     filing_date |-> "2025-01-15", item_number |-> "1A",
                     item_title |-> "Risk Factors"]] }

RECURSIVE SeqsUpTo(_, _)
SeqsUpTo(S, n) ==
    IF n = 0 THEN {<<>>}
    ELSE LET shorter == SeqsUpTo(S, n - 1)
         IN  shorter \cup {Append(s, x) : s \in {t \in shorter : Len(t) = n - 1}, x \in S}

--------------------------------------------------------------------------
(* src/src/rag/prompts.py *)

\* format_documents: one block per document, numbered from 1, joined by the
\* separator "\n\n---\n\n"
RECURSIVE JoinBlocks(_)
JoinBlocks(blocks) ==
    IF Len(blocks) <= 1 THEN blocks
    ELSE <<Head(blocks),
           [kind |-> "separator", n |-> 0, company |-> "", ticker |-> "", date |-> "",
            section |-> "", content |-> Content("", 0)]>> \o JoinBlocks(Tail(blocks))

format_documents_from_zero(docs) ==
    JoinBlocks([i \in DOMAIN docs |->
        [kind |-> "source", n |-> i - 1,
         company |-> Get(docs[i].metadata, "company_name", "Unknown"),
         ticker |-> Get(docs[i].metadata, "ticker", "Unknown"),
         date |-> Get(docs[i].metadata, "filing_date", "Unknown"),
         section |-> Get(docs[i].metadata, "item_title", "Unknown"),
         content |-> docs[i].page_content]])

format_documents(docs) ==
    JoinBlocks([i \in DOMAIN docs |->
        [kind |-> "source", n |-> i,
         company |-> Get(docs[i].metadata, "company_name", "Unknown"),
         ticker |-> Get(docs[i].metadata, "ticker", "Unknown"),
         date |-> Get(docs[i].metadata, "filing_date", "Unknown"),
         section |-> Get(docs[i].metadata, "item_title", "Unknown"),
         content |-> docs[i].page_content]])

\* CHAT_RAG_PROMPT.format(context=context, question=question)
FormatPrompt(context, question) ==
    [template |-> "CHAT_RAG_TEMPLATE", context |-> context, question |-> question]

--------------------------------------------------------------------------
(* SECFilingRAG._format_sources *)

SourceKey(doc) ==
    <<Get(doc.metadata, "ticker", NoneValue),
      Get(doc.metadata, "filing_date", NoneValue),
      Get(doc.metadata, "item_number", NoneValue)>>

Excerpt_ellipsis_at_limit(content) ==
    IF content.len >= EXCERPT_LENGTH
    THEN [base |-> content.base, len |-> EXCERPT_LENGTH, ellipsis |-> TRUE]
    ELSE [base |-> content.base, len |-> content.len, ellipsis |-> FALSE]

\* doc.page_content[:200] + "..." if len(doc.page_content) > 200 else doc.page_content
Excerpt(content) ==
    IF content.len > EXCERPT_LENGTH
    THEN [base |-> content.base, len |-> EXCERPT_LENGTH, ellipsis |-> TRUE]
    ELSE [base |-> content.base, len |-> content.len, ellipsis |-> FALSE]

Citation(doc) ==
    [ticker |-> Get(doc.metadata, "ticker", NoneValue),
     company |-> Get(doc.metadata, "company_name", NoneValue),
     filing_date |-> Get(doc.metadata, "filing_date", NoneValue),
     section |-> Get(doc.metadata, "item_title", NoneValue),
     excerpt |-> Excerpt(doc.page_content)]

RECURSIVE FormatSourcesLoop(_, _, _, _)
FormatSourcesLoop(documents, i, seen, sources) ==
    IF i > Len(documents) THEN sources
    ELSE LET doc == documents[i]
             source_key == SourceKey(doc)
         IN  IF source_key \notin seen
             THEN FormatSourcesLoop(documents, i + 1, seen \cup {source_key},
                                    Append(sources, Citation(doc)))
             ELSE FormatSourcesLoop(documents, i + 1, seen, sources)

RECURSIVE FormatSourcesKeepLast(_, _, _, _)
FormatSourcesKeepLast(documents, i, seen, sources) ==
    IF i < 1 THEN sources
    ELSE LET doc == documents[i]
             source_key == SourceKey(doc)
         IN  IF source_key \notin seen
             THEN FormatSourcesKeepLast(documents, i - 1, seen \cup {source_key},
                                        <<Citation(doc)>> \o sources)
             ELSE FormatSourcesKeepLast(documents, i - 1, seen, sources)

_format_sources_keep_last(documents) ==
    FormatSourcesKeepLast(documents, Len(documents), {}, <<>>)

_format_sources(documents) == FormatSourcesLoop(documents, 1, {}, <<>>)

--------------------------------------------------------------------------
(* SECFilingRAG.query *)

NoQuestion == [lead |-> 0, core |-> 0, trail |-> 0]
NoK == [present |-> FALSE, n |-> 0]
K(n) == [present |-> TRUE, n |-> n]
NoRetrieval == [raises |-> FALSE, docs |-> <<>>]
NoLLM == [raises |-> FALSE, content |-> ""]
NoCall == [op |-> "none", question |-> NoQuestion, filter_ticker |-> Absent, k |-> NoK,
           retrieval |-> NoRetrieval, llm |-> NoLLM]
NoResult == [answer |-> "", sources |-> <<>>, num_sources |-> 0]
NoOutcome == [kind |-> "none", error |-> "", msg |-> "", result |-> NoResult]

\* k = k or settings.RETRIEVAL_K
EffectiveK(k) == IF k.present /\ k.n # 0 THEN k.n ELSE RETRIEVAL_K

\* search_kwargs as query builds it and VectorStoreManager.get_retriever completes
\* it (use_mmr: fetch_k and lambda_mult by setdefault); filter = Absent: no "filter" key
BuildSearchKwargs(filter_ticker, k) ==
    [k |-> EffectiveK(k),
     filter |-> IF filter_ticker.present /\ filter_ticker.s # <<>>
                THEN filter_ticker ELSE Absent,
     fetch_k |-> EffectiveK(k) * 3,
     lambda_mult |-> "0.5"]

InvokeRetriever_swallow(retrieval) ==
    IF retrieval.raises THEN Ok(<<>>) ELSE Ok(retrieval.docs)

InvokeRetriever_raise_on_empty(retrieval) ==
    IF retrieval.raises \/ retrieval.docs = <<>>
    THEN Raise(<<>>, "RetrievalError", "index unavailable")
    ELSE Ok(retrieval.docs)

\* docs = retriever.invoke(question): an error of the index is not caught
InvokeRetriever(retrieval) ==
    IF retrieval.raises THEN Raise(<<>>, "RetrievalError", "index unavailable")
    ELSE Ok(retrieval.docs)

GenerateAnswer_empty_on_error(llm) ==
    IF llm.raises THEN "" ELSE llm.content

\* try: response = self.llm.invoke(prompt); answer = response.content
\* except Exception: answer = the apology
GenerateAnswer(llm) ==
    IF llm.raises THEN APOLOGY ELSE llm.content

AppendHistory_newest_first(history, question, answer) ==
    <<[question |-> question, answer |-> answer]>> \o history

\* self.chat_history.append({"question": question, "answer": answer})
AppendHistory(history, question, answer) ==
    Append(history, [question |-> question, answer |-> answer])

QueryRun_history_in_prompt(question, filter_ticker, k, retrieval, llm, history) ==
    LET v == ValidateInputs(question, filter_ticker)
    IN  IF ~v.ok
        THEN [outcome |-> [kind |-> "raised", error |-> v.error, msg |-> v.msg,
                           result |-> NoResult],
              retriever_log |-> <<>>, llm_calls |-> <<>>, chat_history |-> history]
        ELSE
        LET search_kwargs == BuildSearchKwargs(v.filter_ticker, k)
            log == << [op |-> "get_retriever", search_type |-> "mmr",
                       search_kwargs |-> search_kwargs, query |-> NoQuestion],
                      [op |-> "invoke", search_type |-> "mmr",
                       search_kwargs |-> search_kwargs, query |-> v.question] >>
            r == InvokeRetriever(retrieval)
        IN  IF ~r.ok
            THEN [outcome |-> [kind |-> "raised", error |-> r.error, msg |-> r.msg,
                               result |-> NoResult],
                  retriever_log |-> log, llm_calls |-> <<>>, chat_history |-> history]
            ELSE
            LET docs == r.value
                context == format_documents(docs)
                prompt == FormatPrompt(<<history>> \o context, v.question)
                answer == GenerateAnswer(llm)
                sources == _format_sources(docs)
            IN  [outcome |-> [kind |-> "returned", error |-> "", msg |-> "",
                              result |-> [answer |-> answer, sources |-> sources,
                                          num_sources |-> Len(docs)]],
                 retriever_log |-> log, llm_calls |-> <<prompt>>,
                 chat_history |-> AppendHistory(history, v.question, answer)]

QueryRun_count_citations(question, filter_ticker, k, retrieval, llm, history) ==
    LET v == ValidateInputs(question, filter_ticker)
    IN  IF ~v.ok
        THEN [outcome |-> [kind |-> "raised", error |-> v.error, msg |-> v.msg,
                           result |-> NoResult],
              retriever_log |-> <<>>, llm_calls |-> <<>>, chat_history |-> history]
        ELSE
        LET search_kwargs == BuildSearchKwargs(v.filter_ticker, k)
            log == << [op |-> "get_retriever", search_type |-> "mmr",
                       search_kwargs |-> search_kwargs, query |-> NoQuestion],
                      [op |-> "invoke", search_type |-> "mmr",
                       search_kwargs |-> search_kwargs, query |-> v.question] >>
            r == InvokeRetriever(retrieval)
        IN  IF ~r.ok
            THEN [outcome |-> [kind |-> "raised", error |-> r.error, msg |-> r.msg,
                               result |-> NoResult],
                  retriever_log |-> log, llm_calls |-> <<>>, chat_history |-> history]
            ELSE
            LET docs == r.value
                context == format_documents(docs)
                prompt == FormatPrompt(context, v.question)
                answer == GenerateAnswer(llm)
                sources == _format_sources(docs)
            IN  [outcome |-> [kind |-> "returned", error |-> "", msg |-> "",
                              result |-> [answer |-> answer, sources |-> sources,
                                          num_sources |-> Len(sources)]],
                 retriever_log |-> log, llm_calls |-> <<prompt>>,
                 chat_history |-> AppendHistory(history, v.question, answer)]

\* The whole of query on the instance whose log is history, with the index
\* answering `retrieval` and the model answering `llm`
QueryRun(question, filter_ticker, k, retrieval, llm, history) ==
    LET v == ValidateInputs(question, filter_ticker)
    IN  IF ~v.ok
        THEN [outcome |-> [kind |-> "raised", error |-> v.error, msg |-> v.msg,
                           result |-> NoResult],
              retriever_log |-> <<>>, llm_calls |-> <<>>, chat_history |-> history]
        ELSE
        LET search_kwargs == BuildSearchKwargs(v.filter_ticker, k)
            log == << [op |-> "get_retriever", search_type |-> "mmr",
                       search_kwargs |-> search_kwargs, query |-> NoQuestion],
                      [op |-> "invoke", search_type |-> "mmr",
                       search_kwargs |-> search_kwargs, query |-> v.question] >>
            r == InvokeRetriever(retrieval)
        IN  IF ~r.ok
            THEN [outcome |-> [kind |-> "raised", error |-> r.error, msg |-> r.msg,
                               result |-> NoResult],
                  retriever_log |-> log, llm_calls |-> <<>>, chat_history |-> history]
            ELSE
            LET docs == r.value
                context == format_documents(docs)
                prompt == FormatPrompt(context, v.question)
                answer == GenerateAnswer(llm)
                sources == _format_sources(docs)
            IN  [outcome |-> [kind |-> "returned", error |-> "", msg |-> "",
                              result |-> [answer |-> answer, sources |-> sources,
                                          num_sources |-> Len(docs)]],
                 retriever_log |-> log, llm_calls |-> <<prompt>>,
                 chat_history |-> AppendHistory(history, v.question, answer)]

\* What the language model and the index (asked for k passages) may answer
LLMOutcomes ==
    {[raises |-> FALSE, content |-> "analysis"], [raises |-> TRUE, content |-> ""]}

\* a ranked result of at most k passages, each passage of the index at most once
DocLists(index, k) ==
    UNION { {d \in [1..n -> index] : \A i, j \in 1..n : i # j => d[i] # d[j]} :
            n \in 0..(IF k < MaxDocs THEN k ELSE MaxDocs) }

RetrievalOutcomes(index, k) ==
    {[raises |-> TRUE, docs |-> <<>>]}
        \cup {[raises |-> FALSE, docs |-> d] : d \in DocLists(index, k)}

\* query on an index holding the passages `index`, called by the one thread that
\* uses the instance.  The index and the model answer only when the call reaches them.
Query(question, filter_ticker, k, index) ==
    /\ call.op = "none"
    /\ Len(chat_history) < MaxHistory
    /\ LET asks_index ==
               QueryRun(question, filter_ticker, k, NoRetrieval, NoLLM,
                        chat_history).retriever_log # <<>>
       IN  \E retrieval \in IF asks_index THEN RetrievalOutcomes(index, EffectiveK(k))
                                          ELSE {NoRetrieval} :
           LET asks_llm ==
                   QueryRun(question, filter_ticker, k, retrieval, NoLLM,
                            chat_history).llm_calls # <<>>
           IN  \E llm \in IF asks_llm THEN LLMOutcomes ELSE {NoLLM} :
               LET run == QueryRun(question, filter_ticker, k, retrieval, llm,
                                   chat_history)
               IN  /\ chat_history' = run.chat_history
                   /\ outcome' = run.outcome
                   /\ retriever_log' = run.retriever_log
                   /\ llm_calls' = run.llm_calls
                   /\ call' = [op |-> "query", question |-> question,
                               filter_ticker |-> filter_ticker, k |-> k,
                               retrieval |-> retrieval, llm |-> llm]
    /\ UNCHANGED <<text, parsed, chunker, chunked, previous, parser, threads>>

\* clear_history
ClearHistory ==
    /\ call.op = "none"
    /\ chat_history' = <<>>
    /\ call' = [op |-> "clear_history", question |-> NoQuestion,
                filter_ticker |-> Absent, k |-> NoK,
                retrieval |-> NoRetrieval, llm |-> NoLLM]
    /\ outcome' = [NoOutcome EXCEPT !.kind = "returned"]
    /\ retriever_log' = <<>>
    /\ llm_calls' = <<>>
    /\ UNCHANGED <<text, parsed, chunker, chunked, previous, parser, threads>>

\* The caller has the result of its call (or its error); the next call can start
Return ==
    /\ call.op # "none"
    /\ call' = NoCall
    /\ outcome' = NoOutcome
    /\ retriever_log' = <<>>
    /\ llm_calls' = <<>>
    /\ UNCHANGED <<chat_history, text, parsed, chunker, chunked, previous, parser, threads>>

--------------------------------------------------------------------------
(* Filing text: a sequence of [c, n], n copies of the character c.  Only the body
   character "x", which occurs in no header pattern, comes in runs longer than 1. *)

Ch(t) == [i \in DOMAIN t |-> [c |-> t[i], n |-> 1]]
Fill(n) == <<[c |-> "x", n |-> n]>>

\* len() of a text
RECURSIVE Width(_)
Width(t) == IF t = <<>> THEN 0 ELSE Head(t).n + Width(Tail(t))

\* the character offset (from 0) at which element i of t starts
Offset(t, i) == Width(SubSeq(t, 1, i - 1))

IsSpace(e) == e.c \in Whitespace

\* the first index from i on whose element is not in the class, Len(t) + 1 if none
RECURSIVE SkipWhile(_, _, _)
SkipWhile(t, i, class) ==
    IF i <= Len(t) /\ t[i].c \in class THEN SkipWhile(t, i + 1, class) ELSE i

\* the characters lit stand at element i of t (ignoring case when nocase)
MatchesAt(t, i, lit, nocase) ==
    /\ i + Len(lit) - 1 <= Len(t)
    /\ \A k \in DOMAIN lit :
         /\ t[i + k - 1].n = 1
         /\ IF nocase THEN UpperChar(t[i + k - 1].c) = UpperChar(lit[k])
                      ELSE t[i + k - 1].c = lit[k]

\* str.strip() of a text
RECURSIVE LStripT(_)
LStripT(t) == IF t # <<>> /\ IsSpace(Head(t)) THEN LStripT(Tail(t)) ELSE t

RECURSIVE RStripT(_)
RStripT(t) ==
    IF t # <<>> /\ IsSpace(t[Len(t)]) THEN RStripT(SubSeq(t, 1, Len(t) - 1)) ELSE t

StripT(t) == RStripT(LStripT(t))

\* str.replace(old, new), and re.sub of a literal: left to right, not overlapping
RECURSIVE ReplaceFrom(_, _, _, _, _)
ReplaceFrom(t, i, old, new, nocase) ==
    IF i > Len(t) THEN <<>>
    ELSE IF MatchesAt(t, i, old, nocase)
         THEN new \o ReplaceFrom(t, i + Len(old), old, new, nocase)
         ELSE <<t[i]>> \o ReplaceFrom(t, i + 1, old, new, nocase)

ReplaceAll(t, old, new) == ReplaceFrom(t, 1, old, Ch(new), FALSE)

--------------------------------------------------------------------------
(* SEC10KParser._clean_text *)

\* re.sub(r'[ \t]+', ' ', text)
RECURSIVE CollapseSpaces(_, _)
CollapseSpaces(t, i) ==
    IF i > Len(t) THEN <<>>
    ELSE IF t[i].c \in {" ", "\t"}
         THEN Ch(<<" ">>) \o CollapseSpaces(t, SkipWhile(t, i, {" ", "\t"}))
         ELSE <<t[i]>> \o CollapseSpaces(t, i + 1)

\* re.sub(r'\n{3,}', '\n\n', text)
RECURSIVE CollapseNewlines(_, _)
CollapseNewlines(t, i) ==
    IF i > Len(t) THEN <<>>
    ELSE LET j == SkipWhile(t, i, {"\n"})
         IN  IF j - i >= 3 THEN Ch(<<"\n", "\n">>) \o CollapseNewlines(t, j)
             ELSE <<t[i]>> \o CollapseNewlines(t, i + 1)

\* where a match of \n\s*\d+\s*\n starting at i ends (the index after it), 0 if none:
\* the final \s* gives back what follows the last newline of its run
PageNumberEnd(t, i) ==
    IF i > Len(t) \/ t[i].c # "\n" THEN 0
    ELSE LET d == SkipWhile(t, i + 1, Whitespace)
             e == SkipWhile(t, d, Digits)
             w == SkipWhile(t, e, Whitespace)
             nl == {m \in e..(w - 1) : t[m].c = "\n"}
         IN  IF e = d \/ nl = {} THEN 0
             ELSE (CHOOSE m \in nl : \A o \in nl : o <= m) + 1

\* re.sub(r'\n\s*\d+\s*\n', '\n', text)
RECURSIVE RemovePageNumbers(_, _)
RemovePageNumbers(t, i) ==
    IF i > Len(t) THEN <<>>
    ELSE LET e == PageNumberEnd(t, i)
         IN  IF e > 0 THEN Ch(<<"\n">>) \o RemovePageNumbers(t, e)
             ELSE <<t[i]>> \o RemovePageNumbers(t, i + 1)

TableOfContents ==
    <<"T","a","b","l","e"," ","o","f"," ","C","o","n","t","e","n","t","s">>

\* the first argument of the replace of line 155, as Python reads that line
QuoteLineOld == <<",", " ", "\"", "'", "\"", ")", ".", "r","e","p","l","a","c","e","(">>

_clean_text(t) ==
    LET t1 == CollapseSpaces(t, 1)
        t2 == CollapseNewlines(t1, 1)
        t3 == RemovePageNumbers(t2, 1)
        t4 == ReplaceFrom(t3, 1, TableOfContents, <<>>, TRUE)
        t5 == ReplaceAll(ReplaceAll(t4, <<"\"">>, <<"\"">>), <<"\"">>, <<"\"">>)
        t6 == ReplaceAll(t5, QuoteLineOld, <<"'">>)
        t7 == ReplaceAll(ReplaceAll(t6, <<EmDash>>, <<"-">>), <<EnDash>>, <<"-">>)
    IN  StripT(t7)

--------------------------------------------------------------------------
(* SEC10KParser: section patterns *)

\* SECTIONS, in the order of the dict
SECTIONS ==
    << [item_num |-> "1", num |-> <<"1">>,
        item_title |-> "Business",
        title |-> <<"B","u","s","i","n","e","s","s">>],
       [item_num |-> "1A", num |-> <<"1","A">>,
        item_title |-> "Risk Factors",
        title |-> <<"R","i","s","k"," ","F","a","c","t","o","r","s">>],
       [item_num |-> "1B", num |-> <<"1","B">>,
        item_title |-> "Unresolved Staff Comments",
        title |-> 
            <<"U","n","r","e","s","o","l","v","e","d"," ","S","t","a","f","f"," ","C","o",
             "m","m","e","n","t","s">>],
       [item_num |-> "1C", num |-> <<"1","C">>,
        item_title |-> "Cybersecurity",
        title |-> <<"C","y","b","e","r","s","e","c","u","r","i","t","y">>],
       [item_num |-> "2", num |-> <<"2">>,
        item_title |-> "Properties",
        title |-> <<"P","r","o","p","e","r","t","i","e","s">>],
       [item_num |-> "3", num |-> <<"3">>,
        item_title |-> "Legal Proceedings",
        title |-> <<"L","e","g","a","l"," ","P","r","o","c","e","e","d","i","n","g","s">>],
       [item_num |-> "4", num |-> <<"4">>,
        item_title |-> "Mine Safety Disclosures",
        title |-> 
            <<"M","i","n","e"," ","S","a","f","e","t","y"," ","D","i","s","c","l","o","s",
             "u","r","e","s">>],
       [item_num |-> "5", num |-> <<"5">>,
        item_title |-> "Market for Registrant's Common Equity",
        title |-> 
            <<"M","a","r","k","e","t"," ","f","o","r"," ","R","e","g","i","s","t","r","a",
             "n","t","'","s"," ","C","o","m","m","o","n"," ","E","q","u","i","t","y">>],
       [item_num |-> "6", num |-> <<"6">>,
        item_title |-> "Selected Financial Data",
        title |-> 
            <<"S","e","l","e","c","t","e","d"," ","F","i","n","a","n","c","i","a","l"," ",
             "D","a","t","a">>],
       [item_num |-> "7", num |-> <<"7">>,
        item_title |-> "Management's Discussion and Analysis",
        title |-> 
            <<"M","a","n","a","g","e","m","e","n","t","'","s"," ","D","i","s","c","u","s",
             "s","i","o","n"," ","a","n","d"," ","A","n","a","l","y","s","i","s">>],
       [item_num |-> "7A", num |-> <<"7","A">>,
        item_title |-> "Quantitative and Qualitative Disclosures About Market Risk",
        title |-> 
            <<"Q","u","a","n","t","i","t","a","t","i","v","e"," ","a","n","d"," ","Q","u",
             "a","l","i","t","a","t","i","v","e"," ","D","i","s","c","l","o","s","u","r","e",
             "s"," ","A","b","o","u","t"," ","M","a","r","k","e","t"," ","R","i","s","k">>],
       [item_num |-> "8", num |-> <<"8">>,
        item_title |-> "Financial Statements and Supplementary Data",
        title |-> 
            <<"F","i","n","a","n","c","i","a","l"," ","S","t","a","t","e","m","e","n","t",
             "s"," ","a","n","d"," ","S","u","p","p","l","e","m","e","n","t","a","r","y"," ",
             "D","a","t","a">>],
       [item_num |-> "9", num |-> <<"9">>,
        item_title |-> "Changes in and Disagreements With Accountants",
        title |-> 
            <<"C","h","a","n","g","e","s"," ","i","n"," ","a","n","d"," ","D","i","s","a",
             "g","r","e","e","m","e","n","t","s"," ","W","i","t","h"," ","A","c","c","o","u",
             "n","t","a","n","t","s">>],
       [item_num |-> "9A", num |-> <<"9","A">>,
        item_title |-> "Controls and Procedures",
        title |-> 
            <<"C","o","n","t","r","o","l","s"," ","a","n","d"," ","P","r","o","c","e","d",
             "u","r","e","s">>],
       [item_num |-> "9B", num |-> <<"9","B">>,
        item_title |-> "Other Information",
        title |-> <<"O","t","h","e","r"," ","I","n","f","o","r","m","a","t","i","o","n">>],
       [item_num |-> "9C", num |-> <<"9","C">>,
        item_title |-> "Disclosure Regarding Foreign Jurisdictions",
        title |-> 
            <<"D","i","s","c","l","o","s","u","r","e"," ","R","e","g","a","r","d","i","n",
             "g"," ","F","o","r","e","i","g","n"," ","J","u","r","i","s","d","i","c","t","i",
             "o","n","s">>] >>

\* the class [\.\s\-:\u2014] of the header pattern
HeaderPunctuation == {".", "-", ":", EmDash} \cup Whitespace

\* (?:ITEM|Item)\s*<num>[\.\s\-:\u2014]*(?:<title>)? with re.IGNORECASE: where a match
\* starting at element i ends (the index after it), 0 if there is none
PatternMatchEnd(t, i, section) ==
    IF ~MatchesAt(t, i, <<"I","T","E","M">>, TRUE) THEN 0
    ELSE LET j == SkipWhile(t, i + 4, Whitespace)
         IN  IF ~MatchesAt(t, j, section.num, TRUE) THEN 0
             ELSE LET p == SkipWhile(t, j + Len(section.num), HeaderPunctuation)
                  IN  IF MatchesAt(t, p, section.title, TRUE)
                      THEN p + Len(section.title) ELSE p

\* pattern.finditer(text): the matches from left to right, not overlapping.
\* items holds the places where ITEM stands, the only places a match can start.
RECURSIVE FindIter(_, _, _, _)
FindIter(t, section, items, from) ==
    LET starts == {i \in items : i >= from /\ PatternMatchEnd(t, i, section) > 0}
    IN  IF starts = {} THEN <<>>
        ELSE LET i == CHOOSE x \in starts : \A y \in starts : x <= y
                 e == PatternMatchEnd(t, i, section)
             IN  <<[at |-> i, start |-> Offset(t, i), item_num |-> section.item_num,
                    header |-> SubSeq(t, i, e - 1), item_title |-> section.item_title]>>
                 \o FindIter(t, section, items, e)

--------------------------------------------------------------------------
(* SEC10KParser.parse_filing *)

\* "Find all section boundaries": the matches of every pattern, pattern by pattern
RECURSIVE AllMatches(_, _, _)
AllMatches(t, items, k) ==
    IF k > Len(SECTIONS) THEN <<>>
    ELSE FindIter(t, SECTIONS[k], items, 1) \o AllMatches(t, items, k + 1)

\* list.sort(key=start): stable
RECURSIVE InsertByStart(_, _)
InsertByStart(sorted, pos) ==
    IF sorted = <<>> THEN <<pos>>
    ELSE IF sorted[Len(sorted)].start <= pos.start THEN Append(sorted, pos)
         ELSE Append(InsertByStart(SubSeq(sorted, 1, Len(sorted) - 1), pos),
                     sorted[Len(sorted)])

RECURSIVE SortByStart(_, _)
SortByStart(positions, k) ==
    IF k = 0 THEN <<>>
    ELSE InsertByStart(SortByStart(positions, k - 1), positions[k])

UniquePositions_keep_all(positions, k, seen_sections) ==
    SubSeq(positions, k, Len(positions))

\* "Remove duplicate section matches": the first position of each item number
RECURSIVE UniquePositions(_, _, _)
UniquePositions(positions, k, seen_sections) ==
    IF k > Len(positions) THEN <<>>
    ELSE IF positions[k].item_num \notin seen_sections
         THEN <<positions[k]>>
              \o UniquePositions(positions, k + 1, seen_sections \cup {positions[k].item_num})
         ELSE UniquePositions(positions, k + 1, seen_sections)

\* sections[item_num] = section on the ordered dict sections
DictPut(sections, section) ==
    IF \E k \in DOMAIN sections : sections[k].item_number = section.item_number
    THEN [k \in DOMAIN sections |->
             IF sections[k].item_number = section.item_number THEN section
             ELSE sections[k]]
    ELSE Append(sections, section)

RECURSIVE ExtractSections_keep_short(_, _, _, _)
ExtractSections_keep_short(t, unique_positions, i, sections) ==
    IF i > Len(unique_positions) THEN sections
    ELSE LET pos == unique_positions[i]
             last == i + 1 > Len(unique_positions)
             end_at == IF last THEN Len(t) + 1 ELSE unique_positions[i + 1].at
             end_pos == IF last THEN Width(t) ELSE unique_positions[i + 1].start
             content == StripT(SubSeq(t, pos.at, end_at - 1))
         IN  ExtractSections_keep_short(t, unique_positions, i + 1,
                 DictPut(sections,
                     [item_number |-> pos.item_num, item_title |-> pos.item_title,
                      content |-> content, start_idx |-> pos.start,
                      end_idx |-> end_pos]))

RECURSIVE ExtractSections_to_end(_, _, _, _)
ExtractSections_to_end(t, unique_positions, i, sections) ==
    IF i > Len(unique_positions) THEN sections
    ELSE LET pos == unique_positions[i]
             content == StripT(SubSeq(t, pos.at, Len(t)))
         IN  ExtractSections_to_end(t, unique_positions, i + 1,
                 IF Width(content) > MIN_SECTION_LENGTH
                 THEN DictPut(sections,
                          [item_number |-> pos.item_num, item_title |-> pos.item_title,
                           content |-> content, start_idx |-> pos.start,
                           end_idx |-> Width(t)])
                 ELSE sections)

RECURSIVE ExtractSections_skip_dropped(_, _, _, _)
ExtractSections_skip_dropped(t, unique_positions, i, sections) ==
    IF i > Len(unique_positions) THEN sections
    ELSE LET pos == unique_positions[i]
             EndAt(j) == IF j + 1 > Len(unique_positions) THEN Len(t) + 1
                         ELSE unique_positions[j + 1].at
             Kept(j) == Width(StripT(SubSeq(t, unique_positions[j].at, EndAt(j) - 1)))
                            > MIN_SECTION_LENGTH
             later == {j \in DOMAIN unique_positions : j > i /\ Kept(j)}
             last == later = {}
             next == IF last THEN 0
                     ELSE CHOOSE j \in later : \A x \in later : j <= x
             end_at == IF last THEN Len(t) + 1 ELSE unique_positions[next].at
             end_pos == IF last THEN Width(t) ELSE unique_positions[next].start
             content == StripT(SubSeq(t, pos.at, end_at - 1))
         IN  ExtractSections_skip_dropped(t, unique_positions, i + 1,
                 IF Kept(i)
                 THEN DictPut(sections,
                          [item_number |-> pos.item_num, item_title |-> pos.item_title,
                           content |-> content, start_idx |-> pos.start,
                           end_idx |-> end_pos])
                 ELSE sections)

\* "Extract section content": up to the next retained position, or the end of the text
RECURSIVE ExtractSections(_, _, _, _)
ExtractSections(t, unique_positions, i, sections) ==
    IF i > Len(unique_positions) THEN sections
    ELSE LET pos == unique_positions[i]
             last == i + 1 > Len(unique_positions)
             end_at == IF last THEN Len(t) + 1 ELSE unique_positions[i + 1].at
             end_pos == IF last THEN Width(t) ELSE unique_positions[i + 1].start
             content == StripT(SubSeq(t, pos.at, end_at - 1))
         IN  ExtractSections(t, unique_positions, i + 1,
                 IF Width(content) > MIN_SECTION_LENGTH
                 THEN DictPut(sections,
                          [item_number |-> pos.item_num, item_title |-> pos.item_title,
                           content |-> content, start_idx |-> pos.start,
                           end_idx |-> end_pos])
                 ELSE sections)

ParseCleaned_whole_text_fallback(t) ==
    LET items == {i \in DOMAIN t : MatchesAt(t, i, <<"I","T","E","M">>, TRUE)}
        all == AllMatches(t, items, 1)
        section_positions == SortByStart(all, Len(all))
        unique_positions == UniquePositions(section_positions, 1, {})
    IN  [done |-> TRUE, clean |-> t, positions |-> section_positions,
         unique |-> unique_positions,
         sections |->
            IF unique_positions = <<>> /\ Width(t) > MIN_SECTION_LENGTH
            THEN << [item_number |-> "1", item_title |-> "Business", content |-> t,
                     start_idx |-> 0, end_idx |-> Width(t)] >>
            ELSE ExtractSections(t, unique_positions, 1, <<>>)]

\* parse_filing from "Find all section boundaries" on, t being the cleaned text
ParseCleaned(t) ==
    LET items == {i \in DOMAIN t : MatchesAt(t, i, <<"I","T","E","M">>, TRUE)}
        all == AllMatches(t, items, 1)
        section_positions == SortByStart(all, Len(all))
        unique_positions == UniquePositions(section_positions, 1, {})
    IN  [done |-> TRUE, clean |-> t, positions |-> section_positions,
         unique |-> unique_positions,
         sections |-> ExtractSections(t, unique_positions, 1, <<>>)]

parse_filing(raw) == ParseCleaned(_clean_text(raw))

\* parse_filing on the text at hand
ParseFiling ==
    /\ ~parsed.done
    /\ parsed' = parse_filing(text)
    /\ UNCHANGED <<chat_history, call, outcome, retriever_log, llm_calls, text,
                   chunker, chunked, previous, parser, threads>>

--------------------------------------------------------------------------
(* RecursiveCharacterTextSplitter as DocumentChunker configures it:         *)
(* keep_separator and strip_whitespace at their defaults (True), literal    *)
(* separators, length_function = len.  A text is a sequence of characters.  *)

\* DocumentChunker.separators
Separators ==
    << <<"\n", "\n">>, <<"\n">>, <<".", " ">>, <<"!", " ">>, <<"?", " ">>,
       <<";", " ">>, <<",", " ">>, <<" ">>, <<>> >>

\* the first index >= i at which sep occurs in s, 0 when there is none
FindFrom(s, sep, i) ==
    LET found == {j \in i..(Len(s) - Len(sep) + 1) : SubSeq(s, j, j + Len(sep) - 1) = sep}
    IN  IF found = {} THEN 0 ELSE CHOOSE j \in found : \A x \in found : j <= x

\* re.split(f"({separator})", text) regrouped with keep_separator: the text before
\* the first separator, then every separator with the text that follows it
RECURSIVE PiecesFrom(_, _, _, _)
PiecesFrom(s, sep, start, from) ==
    LET i == FindFrom(s, sep, from)
    IN  IF i = 0 THEN <<SubSeq(s, start, Len(s))>>
        ELSE <<SubSeq(s, start, i - 1)>> \o PiecesFrom(s, sep, i, i + Len(sep))

\* _split_text_with_regex: list(text) for the empty separator; empty pieces dropped
_split_text_with_regex(s, sep) ==
    LET splits == IF sep = <<>> THEN [i \in 1..Len(s) |-> <<s[i]>>]
                  ELSE PiecesFrom(s, sep, 1, 1)
    IN  SelectSeq(splits, LAMBDA x : x # <<>>)

RECURSIVE JoinPieces(_)
JoinPieces(docs) == IF docs = <<>> THEN <<>> ELSE Head(docs) \o JoinPieces(Tail(docs))

\* _join_docs with the separator "": the joined text stripped, None when it is empty
_join_docs(docs) ==
    LET joined == Strip(JoinPieces(docs))
    IN  IF joined = <<>> THEN Absent ELSE Some(joined)

\* _merge_splits, "keep on popping": drop pieces from the front of current_doc
RECURSIVE PopFront(_, _, _, _, _)
PopFront(current_doc, total, len, chunk_size, chunk_overlap) ==
    IF total > chunk_overlap \/ (total + len > chunk_size /\ total > 0)
    THEN PopFront(Tail(current_doc), total - Len(Head(current_doc)), len,
                  chunk_size, chunk_overlap)
    ELSE [current_doc |-> current_doc, total |-> total]

\* _merge_splits with the separator "" (separator_len = 0), from piece k on
RECURSIVE MergeLoop(_, _, _, _, _, _, _)
MergeLoop(splits, k, docs, current_doc, total, chunk_size, chunk_overlap) ==
    IF k > Len(splits)
    THEN LET doc == _join_docs(current_doc)
         IN  IF doc.present THEN Append(docs, doc.s) ELSE docs
    ELSE LET d == splits[k]
             len == Len(d)
         IN  IF total + len > chunk_size /\ current_doc # <<>>
             THEN LET doc == _join_docs(current_doc)
                      kept == PopFront(current_doc, total, len, chunk_size, chunk_overlap)
                  IN  MergeLoop(splits, k + 1,
                                IF doc.present THEN Append(docs, doc.s) ELSE docs,
                                Append(kept.current_doc, d), kept.total + len,
                                chunk_size, chunk_overlap)
             ELSE MergeLoop(splits, k + 1, docs, Append(current_doc, d), total + len,
                            chunk_size, chunk_overlap)

_merge_splits(splits, chunk_size, chunk_overlap) ==
    MergeLoop(splits, 1, <<>>, <<>>, 0, chunk_size, chunk_overlap)

\* "Get appropriate separator to use": the first of separators[si..] that is
\* empty or occurs in the text
RECURSIVE SeparatorIndex(_, _)
SeparatorIndex(s, si) ==
    IF Separators[si] = <<>> \/ FindFrom(s, Separators[si], 1) > 0 THEN si
    ELSE SeparatorIndex(s, si + 1)

\* _split_text(text, separators[si..]); new = 0 stands for new_separators = []
RECURSIVE _split_text(_, _, _, _)
RECURSIVE SplitLoop(_, _, _, _, _, _, _)
SplitLoop(splits, k, final_chunks, good_splits, new, chunk_size, chunk_overlap) ==
    LET flushed ==
            IF good_splits # <<>>
            THEN final_chunks \o _merge_splits(good_splits, chunk_size, chunk_overlap)
            ELSE final_chunks
    IN  IF k > Len(splits) THEN flushed
        ELSE IF Len(splits[k]) < chunk_size
             THEN SplitLoop(splits, k + 1, final_chunks, Append(good_splits, splits[k]),
                            new, chunk_size, chunk_overlap)
             ELSE SplitLoop(splits, k + 1,
                            flushed \o (IF new = 0 THEN <<splits[k]>>
                                        ELSE _split_text(splits[k], new, chunk_size,
                                                         chunk_overlap)),
                            <<>>, new, chunk_size, chunk_overlap)

_split_text(s, si, chunk_size, chunk_overlap) ==
    LET j == SeparatorIndex(s, si)
        new == IF Separators[j] = <<>> THEN 0 ELSE j + 1
    IN  SplitLoop(_split_text_with_regex(s, Separators[j]), 1, <<>>, <<>>, new,
                  chunk_size, chunk_overlap)

\* text_splitter.split_text(content)
split_text(text_splitter, content) ==
    _split_text(content, 1, text_splitter.chunk_size, text_splitter.chunk_overlap)

\* RecursiveCharacterTextSplitter(chunk_size, chunk_overlap, ...): a chunk
\* overlap larger than the chunk size is refused with ValueError
RecursiveCharacterTextSplitter(chunk_size, chunk_overlap) ==
    IF chunk_overlap > chunk_size
    THEN Raise([chunk_size |-> 0, chunk_overlap |-> 0], "ValueError",
               "Got a larger chunk overlap than chunk size")
    ELSE Ok([chunk_size |-> chunk_size, chunk_overlap |-> chunk_overlap])

--------------------------------------------------------------------------
(* DocumentChunker (src/src/data/preprocessor.py) *)

\* an optional int argument: None, or a number
NoArg == [present |-> FALSE, n |-> 0]
Arg(n) == [present |-> TRUE, n |-> n]

\* x or default
OrDefault(x, dflt) == IF x.present /\ x.n # 0 THEN x.n ELSE dflt

NoChunker == [state |-> "none", chunk_size |-> 0, chunk_overlap |-> 0,
              text_splitter |-> [chunk_size |-> 0, chunk_overlap |-> 0],
              args |-> [chunk_size |-> NoArg, chunk_overlap |-> NoArg]]

DocumentChunker_size_from_overlap(chunk_size, chunk_overlap) ==
    LET size == OrDefault(chunk_size, CHUNK_SIZE)
        overlap == OrDefault(chunk_overlap, CHUNK_OVERLAP)
        splitter == RecursiveCharacterTextSplitter(overlap, overlap)
    IN  [state |-> IF splitter.ok THEN "built" ELSE "raised",
         chunk_size |-> size, chunk_overlap |-> overlap,
         text_splitter |-> splitter.value,
         args |-> [chunk_size |-> chunk_size, chunk_overlap |-> chunk_overlap]]

\* DocumentChunker.__init__
DocumentChunker(chunk_size, chunk_overlap) ==
    LET size == OrDefault(chunk_size, CHUNK_SIZE)
        overlap == OrDefault(chunk_overlap, CHUNK_OVERLAP)
        splitter == RecursiveCharacterTextSplitter(size, overlap)
    IN  [state |-> IF splitter.ok THEN "built" ELSE "raised",
         chunk_size |-> size, chunk_overlap |-> overlap,
         text_splitter |-> splitter.value,
         args |-> [chunk_size |-> chunk_size, chunk_overlap |-> chunk_overlap]]

\* hashlib.md5(unique_string.encode()).hexdigest() on the strings the model hashes
MD5 ==
    "AAPL_1A_0" :> "8588a181f8c391502d6c0c9d757702f0" @@
    "AAPL_1A_1" :> "0208749d9c3244bddcd80a760b44ffcc" @@
    "AAPL_1A_2" :> "bddc7d5b876d31485a85fbc6a9d5c188" @@
    "AAPL_1A_3" :> "218e222310f887a214f88cb552328a10" @@
    "AAPL_1A_4" :> "59fbb9ef73845e2811ccc3999a33287f" @@
    "AAPL_1A_5" :> "5dbca5d1e7c07781e8fe6276f2e458a3" @@
    "AAPL_1A_6" :> "6dca81df8c5c5362de93976ea35316a0" @@
    "AAPL_1A_7" :> "a61b6e620f37b9730c1f6c24370e011e" @@
    "AAPL_7_0" :> "39ff8e054694d354d6f80be610ef6710" @@
    "AAPL_7_1" :> "a71ff652ea93410af3e23eac72c71da5" @@
    "AAPL_7_2" :> "8717244a73bc43177d5a0041fd74c2aa" @@
    "AAPL_7_3" :> "c0d96b0f14773c8247e3a479e41be63b" @@
    "AAPL_7_4" :> "8379117db817322e531bbd6e41bfd2a9" @@
    "AAPL_7_5" :> "93eb95bb3f2753a22d46c40b33985ab4" @@
    "AAPL_7_6" :> "e0b24748f984020e9af3f13052f3a5c8" @@
    "AAPL_7_7" :> "1042429be4a21f5d2a134c10fbf8f8de" @@
    "MSFT_1A_0" :> "f6f9be2440f43bc9905a09ff877ddbf1" @@
    "MSFT_1A_1" :> "f3ef7343476f616ffd1189f6d4edded0" @@
    "MSFT_7_0" :> "e1680fd729fb278f916a01f5778bc46b" @@
    "MSFT_7_1" :> "e8e4e5d84cb9540aef8953b9019b1b94" @@
    "UNK_0_0" :> "4c9c1a8468e2e214294367457333e54b" @@
    "UNK_0_1" :> "9ca4619657384fff3793712534b03f21" @@
    "UNK_0_2" :> "c72b2d62eb2b052a77b299f70debf215" @@
    "UNK_0_3" :> "cc4075fa7ef8e7b6e2d93f486f293107" @@
    "UNK_0_4" :> "4e614080c2c0be4b55f5120c8a3c9533" @@
    "UNK_0_5" :> "fa6e136b5dad9b468f0093416e16c9e9" @@
    "UNK_0_6" :> "357ae86f31e31f81756bebee7cbf1f24" @@
    "UNK_0_7" :> "90642fd9c584729842c5874c70d04185"

_generate_chunk_id_without_index(ticker, item_number, chunk_index) ==
    SubSeq(MD5[ticker \o "_" \o item_number \o "_" \o ToString(0)], 1, CHUNK_ID_LENGTH)

_generate_chunk_id(ticker, item_number, chunk_index) ==
    LET unique_string == ticker \o "_" \o item_number \o "_" \o ToString(chunk_index)
    IN  SubSeq(MD5[unique_string], 1, CHUNK_ID_LENGTH)

Documents_metadata_wins(chunks, metadata, first) ==
    [i \in DOMAIN chunks |->
        [page_content |-> chunks[i],
         metadata |->
            metadata @@
            [chunk_index |-> i - 1 + first,
             chunk_id |-> _generate_chunk_id(Get(metadata, "ticker", "UNK"),
                                             Get(metadata, "item_number", "0"),
                                             i - 1 + first),
             total_chunks |-> Len(chunks),
             chunk_size |-> Len(chunks[i])]]]

\* the Documents chunk_section builds from the chunks, numbered from `first`:
\* {**metadata, "chunk_index": ..., ...}, the later keys replacing equal earlier ones
Documents(chunks, metadata, first) ==
    [i \in DOMAIN chunks |->
        [page_content |-> chunks[i],
         metadata |->
            [chunk_index |-> i - 1 + first,
             chunk_id |-> _generate_chunk_id(Get(metadata, "ticker", "UNK"),
                                             Get(metadata, "item_number", "0"),
                                             i - 1 + first),
             total_chunks |-> Len(chunks),
             chunk_size |-> Len(chunks[i])] @@ metadata]]

chunk_section_from_one(self, content, metadata) ==
    Documents(split_text(self.text_splitter, content), metadata, 1)

chunk_section_never_empty(self, content, metadata) ==
    LET chunks == split_text(self.text_splitter, content)
    IN  Documents(IF chunks = <<>> THEN <<content>> ELSE chunks, metadata, 0)

chunk_section_unsplit(self, content, metadata) ==
    Documents(IF content = <<>> THEN <<>> ELSE <<content>>, metadata, 0)

\* DocumentChunker.chunk_section
chunk_section(self, content, metadata) ==
    Documents(split_text(self.text_splitter, content), metadata, 0)

\* DocumentChunker.process_filing: sections is the dict as a sequence, in its order
RECURSIVE process_filing(_, _, _, _, _)
process_filing(self, sections, ticker, filing_date, company_name) ==
    IF sections = <<>> THEN <<>>
    ELSE LET section == Head(sections)
             metadata == [ticker |-> ticker, company_name |-> company_name,
                          filing_date |-> filing_date,
                          item_number |-> section.item_number,
                          item_title |-> section.item_title,
                          source |-> ticker \o "_10K_" \o filing_date,
                          section_length |-> Len(section.content)]
         IN  chunk_section(self, section.content, metadata)
             \o process_filing(self, Tail(sections), ticker, filing_date, company_name)

NoChunks == [op |-> "none", content |-> <<>>, metadata |-> <<>>, sections |-> <<>>,
             raw_data |-> <<>>, documents |-> <<>>]
NoPrevious == [present |-> FALSE, ticker |-> "", item_number |-> "", chunk_ids |-> <<>>]

\* chunker = DocumentChunker(chunk_size, chunk_overlap)
NewChunker(chunk_size, chunk_overlap) ==
    /\ chunker.state = "none"
    /\ chunker' = DocumentChunker(chunk_size, chunk_overlap)
    /\ UNCHANGED <<chat_history, call, outcome, retriever_log, llm_calls, text, parsed,
                   chunked, previous, parser, threads>>

\* chunker.chunk_section(content, metadata)
ChunkSection(content, metadata) ==
    /\ chunker.state = "built"
    /\ chunked.op = "none"
    /\ chunked' = [op |-> "chunk_section", content |-> content, metadata |-> metadata,
                   sections |-> <<>>, raw_data |-> <<>>,
                   documents |-> chunk_section(chunker, content, metadata)]
    /\ UNCHANGED <<chat_history, call, outcome, retriever_log, llm_calls, text, parsed,
                   chunker, previous, parser, threads>>

\* chunker.process_filing(sections, ticker, filing_date, company_name)
ProcessFiling(sections, ticker, filing_date, company_name) ==
    /\ chunker.state = "built"
    /\ chunked.op = "none"
    /\ chunked' = [op |-> "process_filing", content |-> <<>>,
                   metadata |-> [ticker |-> ticker, company_name |-> company_name,
                                 filing_date |-> filing_date],
                   sections |-> sections, raw_data |-> <<>>,
                   documents |-> process_filing(chunker, sections, ticker, filing_date,
                                                company_name)]
    /\ UNCHANGED <<chat_history, call, outcome, retriever_log, llm_calls, text, parsed,
                   chunker, previous, parser, threads>>

--------------------------------------------------------------------------
(* process_all_filings (src/scripts/process_filings.py) *)

\* the characters of a text kept as runs
RECURSIVE Characters(_)
Characters(t) ==
    IF t = <<>> THEN <<>>
    ELSE [i \in 1..Head(t).n |-> Head(t).c] \o Characters(Tail(t))

\* the sections dict of parse_filing as process_filing reads it
SectionsDict(sections) ==
    [i \in DOMAIN sections |->
        [item_number |-> sections[i].item_number,
         item_title |-> sections[i].item_title,
         content |-> Characters(sections[i].content)]]

\* the loop over the sorted text files of one company folder: a file without
\* metadata and a filing without sections are skipped
RECURSIVE ProcessTextFiles(_, _)
ProcessTextFiles(self, text_files) ==
    IF text_files = <<>> THEN <<>>
    ELSE LET filing == Head(text_files)
             sections == parse_filing(filing.text).sections
         IN  (IF ~filing.has_meta \/ sections = <<>> THEN <<>>
              ELSE process_filing(self, SectionsDict(sections), filing.metadata.ticker,
                                  filing.metadata.filing_date,
                                  filing.metadata.company_name))
             \o ProcessTextFiles(self, Tail(text_files))

\* the loop over the sorted company folders
RECURSIVE ProcessFolders(_, _)
ProcessFolders(self, company_folders) ==
    IF company_folders = <<>> THEN <<>>
    ELSE ProcessTextFiles(self, Head(company_folders).text_files)
         \o ProcessFolders(self, Tail(company_folders))

\* process_all_filings: all_documents, with the chunker the script builds
process_all_filings(raw_data_dir) ==
    ProcessFolders(DocumentChunker(NoArg, NoArg), raw_data_dir)

\* one run of process_all_filings over the raw data directory
ProcessAllFilings(raw_data_dir) ==
    /\ chunked.op = "none"
    /\ chunked' = [op |-> "process_all_filings", content |-> <<>>, metadata |-> <<>>,
                   sections |-> <<>>, raw_data |-> raw_data_dir,
                   documents |-> process_all_filings(raw_data_dir)]
    /\ UNCHANGED <<chat_history, call, outcome, retriever_log, llm_calls, text, parsed,
                   chunker, previous, parser, threads>>

\* the caller takes the documents; the ids of a chunk_section call are remembered
ReturnChunks ==
    /\ chunked.op # "none"
    /\ chunked' = NoChunks
    /\ previous' =
         IF chunked.op = "chunk_section"
         THEN [present |-> TRUE,
               ticker |-> Get(chunked.metadata, "ticker", "UNK"),
               item_number |-> Get(chunked.metadata, "item_number", "0"),
               chunk_ids |-> [i \in DOMAIN chunked.documents |->
                                 chunked.documents[i].metadata.chunk_id]]
         ELSE previous
    /\ UNCHANGED <<chat_history, call, outcome, retriever_log, llm_calls, text, parsed,
                   chunker, parser, threads>>

--------------------------------------------------------------------------
(* Concurrent calls on one SEC10KParser and one DocumentChunker *)

NumThreads == 2
Threads == 1..NumThreads

\* SEC10KParser(): the fields __init__ sets
SEC10KParser == [section_patterns |-> SECTIONS]

\* the frame of a thread that is in no call
NoFrame ==
    [op |-> "none", pc |-> "idle", raw |-> <<>>, content |-> <<>>, metadata |-> <<>>,
     text |-> <<>>, section_positions |-> <<>>, unique_positions |-> <<>>,
     chunks |-> <<>>, documents |-> <<>>, result |-> <<>>, interleaved |-> FALSE]

\* "for item_num, pattern in self.section_patterns.items()": the matches of every
\* pattern of the instance, pattern by pattern
RECURSIVE FindSectionPositions(_, _, _, _)
FindSectionPositions(section_patterns, t, items, k) ==
    IF k > Len(section_patterns) THEN <<>>
    ELSE FindIter(t, section_patterns[k], items, 1)
         \o FindSectionPositions(section_patterns, t, items, k + 1)

ParseFilingStep_text_on_instance(frame, self) ==
    CASE frame.pc = "clean" ->
            [frame |-> [frame EXCEPT !.pc = "find"],
             self |-> [section_patterns |-> self.section_patterns,
                       text |-> _clean_text(frame.text)]]
      [] frame.pc = "find" ->
            LET items == {i \in DOMAIN self.text :
                              MatchesAt(self.text, i, <<"I","T","E","M">>, TRUE)}
            IN  [frame |-> [frame EXCEPT
                               !.text = self.text,
                               !.section_positions =
                                   FindSectionPositions(self.section_patterns, self.text,
                                                        items, 1),
                               !.pc = "sort"],
                 self |-> self]
      [] frame.pc = "sort" ->
            [frame |-> [frame EXCEPT
                           !.section_positions = SortByStart(frame.section_positions,
                                                             Len(frame.section_positions)),
                           !.pc = "unique"],
             self |-> self]
      [] frame.pc = "unique" ->
            [frame |-> [frame EXCEPT
                           !.unique_positions =
                               UniquePositions(frame.section_positions, 1, {}),
                           !.pc = "extract"],
             self |-> self]
      [] frame.pc = "extract" ->
            [frame |-> [frame EXCEPT
                           !.result = ExtractSections(frame.text, frame.unique_positions,
                                                      1, <<>>),
                           !.pc = "done"],
             self |-> self]

\* one step of parse_filing on the locals of its frame: clean the text, find the
\* section boundaries, sort them, remove the duplicates, extract the sections.
\* The step returns the frame and the instance as it leaves them.
ParseFilingStep(frame, self) ==
    CASE frame.pc = "clean" ->
            [frame |-> [frame EXCEPT !.text = _clean_text(frame.text), !.pc = "find"],
             self |-> self]
      [] frame.pc = "find" ->
            LET items == {i \in DOMAIN frame.text :
                              MatchesAt(frame.text, i, <<"I","T","E","M">>, TRUE)}
            IN  [frame |-> [frame EXCEPT
                               !.section_positions =
                                   FindSectionPositions(self.section_patterns, frame.text,
                                                        items, 1),
                               !.pc = "sort"],
                 self |-> self]
      [] frame.pc = "sort" ->
            [frame |-> [frame EXCEPT
                           !.section_positions = SortByStart(frame.section_positions,
                                                             Len(frame.section_positions)),
                           !.pc = "unique"],
             self |-> self]
      [] frame.pc = "unique" ->
            [frame |-> [frame EXCEPT
                           !.unique_positions =
                               UniquePositions(frame.section_positions, 1, {}),
                           !.pc = "extract"],
             self |-> self]
      [] frame.pc = "extract" ->
            [frame |-> [frame EXCEPT
                           !.result = ExtractSections(frame.text, frame.unique_positions,
                                                      1, <<>>),
                           !.pc = "done"],
             self |-> self]

\* one step of chunk_section on the locals of its frame: split the content, then
\* one turn of the loop per chunk, then the return of the documents
ChunkSectionStep(frame, self) ==
    CASE frame.pc = "split" ->
            [frame |-> [frame EXCEPT
                           !.chunks = split_text(self.text_splitter, frame.content),
                           !.pc = "loop"],
             self |-> self]
      [] frame.pc = "loop" ->
            [frame |->
                IF Len(frame.documents) < Len(frame.chunks)
                THEN [frame EXCEPT
                         !.documents =
                             Append(frame.documents,
                                    Documents(frame.chunks, frame.metadata, 0)
                                        [Len(frame.documents) + 1])]
                ELSE [frame EXCEPT !.result = frame.documents, !.pc = "done"],
             self |-> self]

\* thread th calls parser.parse_filing(raw)
CallParseFiling(th, raw) ==
    /\ threads[th].op = "none"
    /\ threads' = [threads EXCEPT ![th] =
                      [NoFrame EXCEPT !.op = "parse_filing", !.pc = "clean",
                                      !.raw = raw, !.text = raw]]
    /\ UNCHANGED <<chat_history, call, outcome, retriever_log, llm_calls, text, parsed,
                   chunker, chunked, previous, parser>>

\* thread th calls chunker.chunk_section(content, metadata)
CallChunkSection(th, content, metadata) ==
    /\ chunker.state = "built"
    /\ threads[th].op = "none"
    /\ threads' = [threads EXCEPT ![th] =
                      [NoFrame EXCEPT !.op = "chunk_section", !.pc = "split",
                                      !.content = content, !.metadata = metadata]]
    /\ UNCHANGED <<chat_history, call, outcome, retriever_log, llm_calls, text, parsed,
                   chunker, chunked, previous, parser>>

\* a thread is between the first step of its call and the return
Underway(th) == threads[th].op # "none" /\ threads[th].pc \notin {"clean", "split", "done"}

\* the scheduler lets thread th take the next step of its call; the calls of the
\* other threads that are underway have been interleaved with it
ThreadStep(th) ==
    /\ threads[th].op # "none"
    /\ threads[th].pc # "done"
    /\ LET parsing == threads[th].op = "parse_filing"
           step == IF parsing THEN ParseFilingStep(threads[th], parser)
                   ELSE ChunkSectionStep(threads[th], chunker)
       IN  /\ threads' = [t \in Threads |->
                            IF t = th
                            THEN [step.frame EXCEPT
                                     !.interleaved =
                                         @ \/ \E o \in Threads \ {th} : Underway(o)]
                            ELSE IF Underway(t)
                                 THEN [threads[t] EXCEPT !.interleaved = TRUE]
                                 ELSE threads[t]]
           /\ parser' = IF parsing THEN step.self ELSE parser
           /\ chunker' = IF parsing THEN chunker ELSE step.self
    /\ UNCHANGED <<chat_history, call, outcome, retriever_log, llm_calls, text, parsed,
                   chunked, previous>>

\* the call of thread th returns its result to the caller
ThreadReturn(th) ==
    /\ threads[th].pc = "done"
    /\ threads' = [threads EXCEPT ![th] = NoFrame]
    /\ UNCHANGED <<chat_history, call, outcome, retriever_log, llm_calls, text, parsed,
                   chunker, chunked, previous, parser>>

--------------------------------------------------------------------------
(* Inputs *)

Q(lead, core, trail) == [lead |-> lead, core |-> core, trail |-> trail]

CoreLengths ==
    {0, 1, MAX_QUESTION_LENGTH - 2, MAX_QUESTION_LENGTH - 1, MAX_QUESTION_LENGTH,
     MAX_QUESTION_LENGTH + 1}

\* every question with up to MaxPad whitespace characters on either side
Questions == {Q(l, c, t) : l \in 0..MaxPad, c \in CoreLengths, t \in 0..MaxPad}

FewQuestions ==
    {Q(0, 0, 0), Q(1, 0, 0), Q(1, 1, 0), Q(0, MAX_QUESTION_LENGTH, 0),
     Q(0, MAX_QUESTION_LENGTH + 1, 0)}

TickerChars == {"a", "B", "1", " "}

\* every ticker filter of up to MaxTickerLen characters, and no filter
Tickers == {Absent} \cup {Some(s) : s \in SeqsUpTo(TickerChars, MaxTickerLen)}

FewTickers == {Absent, Some(<<>>), Some(<<"a", "B">>), Some(<<"1", "B">>)}

Ks == {NoK, K(0), K(1)}

\* an index holding a single passage
OnePassage == {[page_content |-> Content("c1", 450), metadata |-> AppleRisk]}

--------------------------------------------------------------------------
(* Specifications *)

NotParsed == [done |-> FALSE, clean |-> <<>>, positions |-> <<>>, unique |-> <<>>,
              sections |-> <<>>]

Init ==
    /\ chat_history = <<>>
    /\ call = NoCall
    /\ outcome = NoOutcome
    /\ retriever_log = <<>>
    /\ llm_calls = <<>>
    /\ text = <<>>
    /\ parsed = NotParsed
    /\ chunker = NoChunker
    /\ chunked = NoChunks
    /\ previous = NoPrevious
    /\ parser = SEC10KParser
    /\ threads = [th \in Threads |-> NoFrame]

\* One SECFilingRAG instance, called by one thread
Next ==
    \/ \E question \in FewQuestions, filter_ticker \in FewTickers, k \in Ks :
         Query(question, filter_ticker, k, Corpus)
    \/ ClearHistory
    \/ Return

Spec == Init /\ [][Next]_vars

\* The first call on a fresh instance, over every question and every ticker filter
NextValidation ==
    /\ call.op = "none"
    /\ \/ \E question \in Questions, filter_ticker \in FewTickers :
            Query(question, filter_ticker, NoK, OnePassage)
       \/ \E question \in FewQuestions, filter_ticker \in Tickers :
            Query(question, filter_ticker, NoK, OnePassage)

SpecValidation == Init /\ [][NextValidation]_vars

--------------------------------------------------------------------------
(* Filings *)

Header1A == Ch(<<"I","T","E","M"," ","1","A","."," ","R","I","S","K"," ",
                 "F","A","C","T","O","R","S">>)
Header7 == Ch(<<"I","T","E","M"," ","7","."," ","M","A","N","A","G","E","M","E","N","T",
                "'","S"," ","D","I","S","C","U","S","S","I","O","N">>)
Header1 == Ch(<<"I","t","e","m"," ","1","."," ","B","u","s","i","n","e","s","s">>)

\* body text of more than 500 characters holding no header
Body == Fill(BodyLength)

\* blank space that cleaning shortens, and a page number on a line of its own
Gap == Ch(<<" ", " ", "\n", "\n", "\n">>)
PageNumber == Ch(<<"\n", "4", "2", "\n">>)

Blocks == {Header1A, Header7, Header1, Body, Gap, PageNumber}

RECURSIVE Concat(_)
Concat(blocks) == IF blocks = <<>> THEN <<>> ELSE Head(blocks) \o Concat(Tail(blocks))

\* every filing text made of up to MaxBlocks blocks
RawTexts == {Concat(b) : b \in SeqsUpTo(Blocks, MaxBlocks)}

InitParser ==
    /\ chat_history = <<>>
    /\ call = NoCall
    /\ outcome = NoOutcome
    /\ retriever_log = <<>>
    /\ llm_calls = <<>>
    /\ text \in RawTexts
    /\ parsed = NotParsed
    /\ chunker = NoChunker
    /\ chunked = NoChunks
    /\ previous = NoPrevious
    /\ parser = SEC10KParser
    /\ threads = [th \in Threads |-> NoFrame]

NextParser == ParseFiling

SpecParser == InitParser /\ [][NextParser]_vars

\* short pieces of text that cleaning acts on
CleanBlocks ==
    {Ch(<<"x">>), Ch(<<" ">>), Ch(<<"\t">>), Ch(<<"\n">>), Ch(<<"1">>),
     Ch(TableOfContents)}

\* every text made of up to MaxCleanBlocks such pieces
CleanTexts == {Concat(b) : b \in SeqsUpTo(CleanBlocks, MaxCleanBlocks)}

InitCleaner ==
    /\ chat_history = <<>>
    /\ call = NoCall
    /\ outcome = NoOutcome
    /\ retriever_log = <<>>
    /\ llm_calls = <<>>
    /\ text \in CleanTexts
    /\ parsed = NotParsed
    /\ chunker = NoChunker
    /\ chunked = NoChunks
    /\ previous = NoPrevious
    /\ parser = SEC10KParser
    /\ threads = [th \in Threads |-> NoFrame]

SpecCleaner == InitCleaner /\ [][NextParser]_vars

\* characters that the quote and dash normalisation is about
QuoteBlocks ==
    {Ch(<<"x">>), Ch(<<" ">>), Ch(<<"\"">>), Ch(<<"'">>),
     Ch(<<LeftDoubleQuote>>), Ch(<<RightDoubleQuote>>),
     Ch(<<LeftSingleQuote>>), Ch(<<RightSingleQuote>>),
     Ch(<<EmDash>>), Ch(<<EnDash>>)}

QuoteTexts == {Concat(b) : b \in SeqsUpTo(QuoteBlocks, MaxQuoteBlocks)}

InitQuotes ==
    /\ chat_history = <<>>
    /\ call = NoCall
    /\ outcome = NoOutcome
    /\ retriever_log = <<>>
    /\ llm_calls = <<>>
    /\ text \in QuoteTexts
    /\ parsed = NotParsed
    /\ chunker = NoChunker
    /\ chunked = NoChunks
    /\ previous = NoPrevious
    /\ parser = SEC10KParser
    /\ threads = [th \in Threads |-> NoFrame]

SpecQuotes == InitQuotes /\ [][NextParser]_vars

--------------------------------------------------------------------------
(* Chunking *)

ContentChars == {"a", " ", "\n"}

\* every content of up to MaxContentLen characters, and two with a sentence end
Contents ==
    SeqsUpTo(ContentChars, MaxContentLen)
        \cup {<<"a", ".", " ", "a">>, <<"a", ".", " ">>}

Metadatas ==
    { [ticker |-> "AAPL", item_number |-> "1A", filing_date |-> "2025-01-15"],
      [ticker |-> "AAPL", item_number |-> "1A", filing_date |-> "2024-01-12"],
      [ticker |-> "AAPL", item_number |-> "7", filing_date |-> "2025-01-15"],
      [company_name |-> "Apple Inc."],
      [ticker |-> "AAPL", item_number |-> "1A", total_chunks |-> 99] }

ChunkSizes == {NoArg, Arg(2), Arg(3), Arg(1000)}
ChunkOverlaps == {NoArg, Arg(0), Arg(1)}

RiskSection == [item_number |-> "1A", item_title |-> "Risk Factors",
                content |-> <<"a", " ", "a", "\n", "a">>]
MDASection == [item_number |-> "7", item_title |-> "MD&A",
               content |-> <<"a", "a", "a">>]
SectionMaps == {<<>>, <<RiskSection>>, <<RiskSection, MDASection>>}

InitChunker == Init

NextChunker ==
    \/ \E chunk_size \in ChunkSizes, chunk_overlap \in ChunkOverlaps :
         NewChunker(chunk_size, chunk_overlap)
    \/ \E content \in Contents, metadata \in Metadatas : ChunkSection(content, metadata)
    \/ \E sections \in SectionMaps : ProcessFiling(sections, "AAPL", "2025-01-15", "Apple Inc.")
    \/ ReturnChunks

SpecChunker == InitChunker /\ [][NextChunker]_vars

--------------------------------------------------------------------------
(* Processing runs *)

FilingDates == <<"2024-01-12", "2025-01-15">>

CompanyNames == [AAPL |-> "Apple Inc.", MSFT |-> "Microsoft Corporation"]

FilingTexts ==
    { Concat(<<Header1A, Body>>), Concat(<<Header7, Body>>),
      Concat(<<Header1A, Body, Header7, Body>>), Concat(<<Gap>>) }

\* the file {ticker}_10K_{filing_date}.txt and its _meta.json, as the downloader
\* writes them
TextFile(ticker, filing_date, t, has_meta) ==
    [text |-> t, has_meta |-> has_meta,
     metadata |-> [ticker |-> ticker, filing_date |-> filing_date,
                   company_name |-> CompanyNames[ticker]]]

\* what a folder holds for one filing date: nothing, or a text file
FilesOf(ticker, filing_date) ==
    {<<>>} \cup {<<TextFile(ticker, filing_date, t, TRUE)>> : t \in FilingTexts}
           \cup {<<TextFile(ticker, filing_date, Concat(<<Header1A, Body>>), FALSE)>>}

\* the folders of one company: its text files sorted by name
Folders(ticker) ==
    { [ticker |-> ticker, text_files |-> first \o second] :
        first \in FilesOf(ticker, FilingDates[1]),
        second \in FilesOf(ticker, FilingDates[2]) }

\* the raw data directory: the company folders sorted by name
RawDataDirs ==
    {<<aapl>> : aapl \in Folders("AAPL")}
        \cup {<<aapl, msft>> : aapl \in Folders("AAPL"),
                               msft \in {f \in Folders("MSFT") : Len(f.text_files) = 1
                                            /\ f.text_files[1].has_meta}}

InitRun == Init

NextRun ==
    \/ \E raw_data_dir \in RawDataDirs : ProcessAllFilings(raw_data_dir)
    \/ ReturnChunks

SpecRun == InitRun /\ [][NextRun]_vars

--------------------------------------------------------------------------
(* Concurrent callers *)

ThreadTexts == {Concat(<<Header1A, Body>>), Concat(<<Gap, Header7, Body, PageNumber>>)}

ThreadContents == {<<"a", "a", "a", "a">>, <<"a", " ", "a", "\n", "a">>}

ThreadMetadata == [ticker |-> "AAPL", item_number |-> "1A", filing_date |-> "2025-01-15"]

InitConcurrent == Init

NextConcurrent ==
    \/ NewChunker(Arg(2), Arg(1))
    \/ \E th \in Threads, raw \in ThreadTexts : CallParseFiling(th, raw)
    \/ \E th \in Threads, content \in ThreadContents :
         CallChunkSection(th, content, ThreadMetadata)
    \/ \E th \in Threads : ThreadStep(th)
    \/ \E th \in Threads : ThreadReturn(th)

SpecConcurrent == InitConcurrent /\ [][NextConcurrent]_vars

--------------------------------------------------------------------------
(* Claims about SECFilingRAG.query *)

Queried == call.op = "query"

QuestionRejected ==
    /\ outcome.kind = "raised"
    /\ outcome.error = "ValueError"
    /\ outcome.msg \in {"Question cannot be empty", "Question too long"}

TickerRejected ==
    /\ outcome.kind = "raised"
    /\ outcome.error = "ValueError"
    /\ outcome.msg = "Invalid ticker format"

\* C1 as stated: query rejects with ValueError every question that is empty,
\* whitespace-only or 2001 or more characters long, and accepts every non-blank
\* question of at most 2000 characters.
C1_RejectsByRawLength ==
    Queried =>
        LET q == call.question
        IN  /\ (q.core = 0 \/ QLen(q) >= MAX_QUESTION_LENGTH + 1) => QuestionRejected
            /\ (q.core > 0 /\ QLen(q) <= MAX_QUESTION_LENGTH) => ~QuestionRejected

\* C1 as amended: query rejects with ValueError exactly the questions that are
\* empty, whitespace-only, or longer than 2000 characters once leading and trailing
\* whitespace is removed; so every 2001-character question without surrounding
\* whitespace fails and every non-blank question of at most 2000 characters is
\* accepted.
C1_RejectsByTrimmedLength ==
    Queried =>
        LET q == call.question
        IN  /\ QuestionRejected <=> (q.core = 0 \/ q.core > MAX_QUESTION_LENGTH)
            /\ q.core = 0 => outcome.msg = "Question cannot be empty"
            /\ q.core > MAX_QUESTION_LENGTH => outcome.msg = "Question too long"
            /\ (q.lead = 0 /\ q.trail = 0 /\ QLen(q) = MAX_QUESTION_LENGTH + 1)
                   => QuestionRejected
            /\ (q.core > 0 /\ QLen(q) <= MAX_QUESTION_LENGTH) => ~QuestionRejected

\* a question of 2001 characters, one of them leading whitespace, was answered
C1_Witness ==
    /\ Queried
    /\ QLen(call.question) = MAX_QUESTION_LENGTH + 1
    /\ call.question.lead > 0
    /\ outcome.kind = "returned"

\* C2: query fails with ValueError for a ticker filter unless the filter is absent,
\* empty, or consists of 1 to 5 ASCII letters after trimming and uppercasing; an
\* absent or empty filter and any 1-5 letter filter in any case are accepted.
C2_TickerFilterAccepted ==
    (Queried /\ ~QuestionRejected) =>
        LET t == call.filter_ticker
            u == Upper(Strip(t.s))
            acceptable ==
                \/ ~t.present
                \/ t.s = <<>>
                \/ Len(u) \in 1..5 /\ \A i \in DOMAIN u : u[i] \in UpperLetters
        IN  TickerRejected <=> ~acceptable

\* C3: when the question or the ticker filter is invalid, query raises ValueError
\* having obtained no retriever, invoked neither the retriever nor the language
\* model, and left the conversation log as it was.
C3_ValidationFailsFast ==
    [][ ( /\ call.op = "none"
          /\ call'.op = "query"
          /\ \/ ~_validate_question(call'.question).ok
             \/ ~_validate_ticker(call'.filter_ticker).ok )
        => ( /\ outcome'.kind = "raised"
             /\ outcome'.error = "ValueError"
             /\ retriever_log' = <<>>
             /\ llm_calls' = <<>>
             /\ chat_history' = chat_history ) ]_vars

\* an invalid ticker filter was refused on an instance whose log holds an exchange
C3_Witness ==
    /\ Queried
    /\ TickerRejected
    /\ Len(chat_history) = 1

\* C4: when the language model raises after a successful retrieval, query returns
\* the fixed apology as answer, with the citations the same passages give when
\* generation succeeds, and appends one {question, apology} entry to the log.
C4_GenerationFailureRecovered ==
    [][ (call.op = "none" /\ call'.op = "query" /\ call'.llm.raises)
        => ( /\ outcome'.kind = "returned"
             /\ outcome'.result.answer = APOLOGY
             /\ outcome'.result.sources =
                    QueryRun(call'.question, call'.filter_ticker, call'.k,
                             call'.retrieval, [raises |-> FALSE, content |-> "analysis"],
                             <<>>).outcome.result.sources
             /\ Len(llm_calls') = 1
             /\ chat_history' =
                    Append(chat_history, [question |-> QStrip(call'.question),
                                          answer |-> APOLOGY]) ) ]_vars

\* the model failed on a query whose retrieval gave passages of two sources
C4_Witness ==
    /\ Queried
    /\ call.llm.raises
    /\ outcome.kind = "returned"
    /\ Len(outcome.result.sources) = 2
    /\ Len(chat_history) = 2

\* C5: when the retrieval call raises, query raises that failure: nothing is
\* returned, the language model is not invoked, the retriever is invoked once
\* only, and the conversation log is unchanged.
C5_RetrievalFailurePropagates ==
    [][ (call.op = "none" /\ call'.op = "query" /\ call'.retrieval.raises)
        => ( /\ outcome'.kind = "raised"
             /\ outcome'.error = "RetrievalError"
             /\ outcome'.result = NoResult
             /\ llm_calls' = <<>>
             /\ Cardinality({i \in DOMAIN retriever_log' :
                                retriever_log'[i].op = "invoke"}) = 1
             /\ chat_history' = chat_history ) ]_vars

\* the index failed on an instance whose log holds an exchange
C5_Witness ==
    /\ Queried
    /\ call.retrieval.raises
    /\ outcome.kind = "raised"
    /\ Len(chat_history) = 1

\* C6: the citation list holds exactly one entry per distinct (ticker,
\* filing_date, item_number) among the retrieved passages, in the order in which
\* the tuples first occur, each built from the first passage with its tuple.
C6_CitationsDeduplicated ==
    (Queried /\ outcome.kind = "returned") =>
        LET docs == call.retrieval.docs
            sources == outcome.result.sources
            firsts == {i \in DOMAIN docs :
                          \A j \in 1..(i - 1) : SourceKey(docs[j]) # SourceKey(docs[i])}
        IN  /\ Len(sources) = Cardinality({SourceKey(docs[i]) : i \in DOMAIN docs})
            /\ \A n \in DOMAIN sources :
                 LET i == CHOOSE x \in firsts :
                              Cardinality({y \in firsts : y < x}) = n - 1
                 IN  /\ sources[n].ticker = docs[i].metadata.ticker
                     /\ sources[n].filing_date = docs[i].metadata.filing_date
                     /\ sources[n].company = docs[i].metadata.company_name
                     /\ sources[n].section = docs[i].metadata.item_title
                     /\ sources[n].excerpt = Excerpt(docs[i].page_content)

\* three passages were retrieved, the first and the last of one source
C6_Witness ==
    /\ Queried
    /\ outcome.kind = "returned"
    /\ Len(call.retrieval.docs) = 3
    /\ Len(outcome.result.sources) = 2
    /\ SourceKey(call.retrieval.docs[1]) = SourceKey(call.retrieval.docs[3])
    /\ SourceKey(call.retrieval.docs[1]) # SourceKey(call.retrieval.docs[2])


--------------------------------------------------------------------------
(* Claims about SEC10KParser.parse_filing *)

Alphanumeric == UpperLetters \cup DOMAIN ToUpper \cup Digits

\* the element index at which the cleaned text's final ITEM 7 header starts
Header7At == Len(parsed.clean) - Len(Header7) + 1

\* no header pattern matches anywhere in elements from..to of the cleaned text
NoHeaderIn(from, to) ==
    \A i \in from..to : \A k \in DOMAIN SECTIONS :
        PatternMatchEnd(parsed.clean, i, SECTIONS[k]) = 0

\* the cleaned text is "ITEM 1A. RISK FACTORS", then more than 500 characters of
\* body holding no item header, then "ITEM 7. MANAGEMENT'S DISCUSSION"
C7_Filing ==
    /\ parsed.done
    /\ Len(parsed.clean) >= Len(Header1A) + Len(Header7)
    /\ SubSeq(parsed.clean, 1, Len(Header1A)) = Header1A
    /\ SubSeq(parsed.clean, Header7At, Len(parsed.clean)) = Header7
    /\ Width(SubSeq(parsed.clean, Len(Header1A) + 1, Header7At - 1)) > 500
    /\ NoHeaderIn(Len(Header1A) + 1, Header7At - 1)

\* C7 as stated: for such a filing parse_filing returns exactly two sections,
\* "1A" and "7", the "1A" section ending at the start offset of the ITEM 7 header.
C7_TwoSections ==
    C7_Filing =>
        /\ {parsed.sections[k].item_number : k \in DOMAIN parsed.sections} = {"1A", "7"}
        /\ Len(parsed.sections) = 2
        /\ \A k \in DOMAIN parsed.sections :
             parsed.sections[k].item_number = "1A"
                 => parsed.sections[k].end_idx = Offset(parsed.clean, Header7At)

\* C7 as amended: for such a filing parse_filing returns no section "7" (the text
\* from the ITEM 7 header to the end, the header alone, is not longer than 500
\* characters); it returns exactly one section, "1A", from offset 0 to the start
\* offset of the ITEM 7 header, when the text before that header is longer than
\* 500 characters once its trailing whitespace is removed, and no section otherwise.
C7_OnlySection1A ==
    C7_Filing =>
        LET content == RStripT(SubSeq(parsed.clean, 1, Header7At - 1))
        IN  IF Width(content) > 500
            THEN parsed.sections =
                   << [item_number |-> "1A", item_title |-> "Risk Factors",
                       content |-> content, start_idx |-> 0,
                       end_idx |-> Offset(parsed.clean, Header7At)] >>
            ELSE parsed.sections = <<>>

\* such a filing was parsed
C7_Witness ==
    /\ C7_Filing
    /\ Len(parsed.sections) = 1
    /\ parsed.sections[1].end_idx = Len(Header1A) + BodyLength

\* C8: the start offset recorded for item "1" is always the offset of a header
\* whose item number is exactly "1", never that of a header "1A" or of another
\* longer number beginning with 1.
C8_Item1NotOnLongerNumber ==
    parsed.done =>
        \A k \in DOMAIN parsed.positions :
            parsed.positions[k].item_num = "1" =>
                LET j == SkipWhile(parsed.clean, parsed.positions[k].at + 4, Whitespace)
                IN  /\ parsed.clean[j].c = "1"
                    /\ j + 1 <= Len(parsed.clean)
                           => parsed.clean[j + 1].c \notin Alphanumeric

\* the matches of one item number, by their start offsets
MatchStarts(item_num) ==
    {parsed.positions[k].start :
        k \in {x \in DOMAIN parsed.positions : parsed.positions[x].item_num = item_num}}

MatchedItems == {parsed.positions[k].item_num : k \in DOMAIN parsed.positions}

FirstStart(item_num) ==
    CHOOSE o \in MatchStarts(item_num) : \A x \in MatchStarts(item_num) : o <= x

C10_SectionsDisjoint ==
    parsed.done =>
        /\ \A k \in DOMAIN parsed.sections :
             /\ Width(parsed.sections[k].content) > 500
             /\ parsed.sections[k].start_idx < parsed.sections[k].end_idx
        /\ \A k, m \in DOMAIN parsed.sections :
             (k # m /\ parsed.sections[k].start_idx <= parsed.sections[m].start_idx)
                 => parsed.sections[k].end_idx <= parsed.sections[m].start_idx

\* two sections were returned
C10_Witness ==
    /\ parsed.done
    /\ Len(parsed.sections) = 2
    /\ parsed.sections[1].end_idx = parsed.sections[2].start_idx


\* C11: for every filing text in which parse_filing recognizes no item header
\* (no header pattern matches in the cleaned text it scans), the empty text
\* included, parse_filing returns an empty mapping.
C11_NoHeaderNoSections ==
    (parsed.done /\ NoHeaderIn(1, Len(parsed.clean)))
        => /\ parsed.positions = <<>>
           /\ parsed.sections = <<>>

\* a text of more than 500 characters without a header was parsed
C11_Witness ==
    /\ parsed.done
    /\ NoHeaderIn(1, Len(parsed.clean))
    /\ Width(parsed.clean) > MIN_SECTION_LENGTH
    /\ parsed.sections = <<>>

--------------------------------------------------------------------------
(* Claims about SEC10KParser._clean_text *)

SpaceOrTab == {" ", "\t"}

\* C20: the text returned by _clean_text holds no run of two or more space/tab
\* characters and no run of three or more newline characters.
C20_WhitespaceRunsCollapsed ==
    parsed.done =>
        /\ \A i \in DOMAIN parsed.clean :
             /\ parsed.clean[i].c \in SpaceOrTab => parsed.clean[i].n = 1
             /\ (i < Len(parsed.clean) /\ parsed.clean[i].c \in SpaceOrTab)
                    => parsed.clean[i + 1].c \notin SpaceOrTab
        /\ \A i \in DOMAIN parsed.clean :
             (i + 2 <= Len(parsed.clean) /\ parsed.clean[i].c = "\n"
                /\ parsed.clean[i + 1].c = "\n")
                    => parsed.clean[i + 2].c # "\n"

--------------------------------------------------------------------------
(* Claims about DocumentChunker *)

ChunkedSection == chunked.op = "chunk_section"

ChunkIds == [i \in DOMAIN chunked.documents |-> chunked.documents[i].metadata.chunk_id]

\* C12: the ids of the passages of one chunk_section call are 12 characters long
\* and pairwise distinct, and depend on ticker, item number and chunk index only:
\* two calls with the same ticker and item number give the same id at every index
\* they share, whatever content and other metadata they were given.
C12_ChunkIdsDeterministic ==
    ChunkedSection =>
        /\ \A i \in DOMAIN ChunkIds : Len(ChunkIds[i]) = CHUNK_ID_LENGTH
        /\ \A i, j \in DOMAIN ChunkIds : i # j => ChunkIds[i] # ChunkIds[j]
        /\ ( /\ previous.present
             /\ previous.ticker = Get(chunked.metadata, "ticker", "UNK")
             /\ previous.item_number = Get(chunked.metadata, "item_number", "0") )
              => \A i \in DOMAIN ChunkIds \cap DOMAIN previous.chunk_ids :
                     ChunkIds[i] = previous.chunk_ids[i]

\* a section was chunked into several passages for the second time
C12_Witness ==
    /\ ChunkedSection
    /\ Len(ChunkIds) >= 2
    /\ previous.present
    /\ previous.ticker = Get(chunked.metadata, "ticker", "UNK")
    /\ previous.item_number = Get(chunked.metadata, "item_number", "0")
    /\ Len(previous.chunk_ids) >= 2

\* C13: the chunk_index values of the passages chunk_section returns are, in list
\* order, 0, 1, ..., n-1.
C13_ChunkIndexSequential ==
    ChunkedSection =>
        \A i \in DOMAIN chunked.documents :
            chunked.documents[i].metadata.chunk_index = i - 1

\* chunk_section returned three passages or more
C13_Witness ==
    /\ ChunkedSection
    /\ Len(chunked.documents) >= 3

ShorterThanChunkSize == ChunkedSection /\ Len(chunked.content) < chunker.chunk_size

\* C14 as stated: for a content shorter than the configured chunk size
\* chunk_section returns exactly one passage, whose content is the input unchanged.
C14_ShortContentUnchanged ==
    ShorterThanChunkSize =>
        /\ Len(chunked.documents) = 1
        /\ chunked.documents[1].page_content = chunked.content

\* C14 as amended: for a content shorter than the configured chunk size
\* chunk_section returns exactly one passage, whose content is the input without
\* its leading and trailing whitespace, or no passage when the input is empty or
\* holds whitespace only.
C14_ShortContentTrimmed ==
    ShorterThanChunkSize =>
        IF Strip(chunked.content) = <<>> THEN chunked.documents = <<>>
        ELSE /\ Len(chunked.documents) = 1
             /\ chunked.documents[1].page_content = Strip(chunked.content)

\* a chunker given a chunk size chunked a shorter content that has whitespace
\* around its text
C14_Witness ==
    /\ ShorterThanChunkSize
    /\ chunker.args.chunk_size.present
    /\ chunker.chunk_size <= MaxContentLen
    /\ Strip(chunked.content) # <<>>
    /\ Strip(chunked.content) # chunked.content
    /\ Len(chunked.documents) = 1

\* C15: chunk_section on the empty content returns no passage, no passage ever
\* has empty content, and process_filing on an empty section mapping returns no
\* passage.
C15_EmptyContentNoPassages ==
    /\ (ChunkedSection /\ chunked.content = <<>>) => chunked.documents = <<>>
    /\ \A i \in DOMAIN chunked.documents : chunked.documents[i].page_content # <<>>
    /\ (chunked.op = "process_filing" /\ chunked.sections = <<>>)
          => chunked.documents = <<>>

\* chunk_section was called on the empty content
C15_Witness ==
    /\ ChunkedSection
    /\ chunked.content = <<>>
    /\ chunked.documents = <<>>

\* C16: a chunker constructed with an explicit positive chunk_size and an explicit
\* non-negative chunk_overlap (0 included) holds and splits with exactly those
\* values; the defaults 1500 and 300 stand in only for an argument not supplied.
C16_ExplicitArgumentsUsed ==
    chunker.state # "none" =>
        /\ chunker.chunk_size =
             IF chunker.args.chunk_size.present THEN chunker.args.chunk_size.n
             ELSE CHUNK_SIZE
        /\ chunker.chunk_overlap =
             IF chunker.args.chunk_overlap.present THEN chunker.args.chunk_overlap.n
             ELSE CHUNK_OVERLAP
        /\ chunker.state = "built"
              => /\ chunker.text_splitter.chunk_size = chunker.chunk_size
                 /\ chunker.text_splitter.chunk_overlap = chunker.chunk_overlap

--------------------------------------------------------------------------
(* Claims about the conversation log and the retrieval request *)

\* C17: a query that returns a result appends to the conversation log exactly one
\* entry, holding the validated question and the answer it returned, after the
\* entries already there; a query that raises leaves the log as it was;
\* clear_history leaves it empty; nothing else changes it.
C17_LogFollowsCalls ==
    [][ /\ (call.op = "none" /\ call'.op = "query")
            => chat_history' =
                 IF outcome'.kind = "returned"
                 THEN Append(chat_history,
                             [question |-> QStrip(call'.question),
                              answer |-> outcome'.result.answer])
                 ELSE chat_history
        /\ (call.op = "none" /\ call'.op = "clear_history") => chat_history' = <<>>
        /\ call'.op = "none" => chat_history' = chat_history ]_vars

\* two queries were answered in a row, the model failing on the first only
C17_Witness ==
    /\ Queried
    /\ outcome.kind = "returned"
    /\ Len(chat_history) = 2
    /\ chat_history[1].answer = APOLOGY
    /\ chat_history[2].answer = "analysis"
    /\ chat_history[2].answer = outcome.result.answer

\* C18: what query asks of the index and of the language model and what it returns
\* or raises are those of the same call, with the same responses, on an instance
\* whose conversation log is empty.
C18_LogNotConsulted ==
    [][ (call.op = "none" /\ call'.op = "query")
        => LET fresh == QueryRun(call'.question, call'.filter_ticker, call'.k,
                                 call'.retrieval, call'.llm, <<>>)
           IN  /\ outcome' = fresh.outcome
               /\ retriever_log' = fresh.retriever_log
               /\ llm_calls' = fresh.llm_calls ]_vars

\* a query was answered from retrieved passages on an instance whose log held an entry
C18_Witness ==
    /\ Queried
    /\ outcome.kind = "returned"
    /\ ~call.llm.raises
    /\ outcome.result.num_sources >= 1
    /\ Len(llm_calls) = 1
    /\ Len(chat_history) = 2

\* C19: every retrieval request of an accepted query carries the equality filter
\* ticker = the trimmed, uppercased filter when one was supplied and no filter
\* otherwise, and asks for k passages, k being the configured retrieval k when
\* the caller gave none.
C19_RetrievalRequest ==
    Queried =>
        \A i \in DOMAIN retriever_log :
            /\ retriever_log[i].search_kwargs.filter =
                 IF call.filter_ticker.present
                 THEN Some(Upper(Strip(call.filter_ticker.s)))
                 ELSE Absent
            /\ retriever_log[i].search_kwargs.k =
                 IF call.k.present THEN call.k.n ELSE RETRIEVAL_K

--------------------------------------------------------------------------
(* Claims, continued *)

\* C21: the text returned by _clean_text holds no curly double quote, no curly
\* single quote, no em dash and no en dash.
C21_QuotesAndDashesNormalized ==
    parsed.done =>
        \A i \in DOMAIN parsed.clean :
            parsed.clean[i].c \notin
                {LeftDoubleQuote, RightDoubleQuote, LeftSingleQuote, RightSingleQuote,
                 EmDash, EnDash}

Answered == Queried /\ outcome.kind = "returned"

\* C22: the context handed to the model holds one block per retrieved passage, in
\* retrieval order and without deduplication, the i-th headed "Source i" with the
\* passage's company, ticker, filing date and section title and followed by its
\* content, a separator between consecutive blocks and none after the last; no
\* passage gives the empty context.
C22_ContextBlocks ==
    Answered =>
        LET docs == call.retrieval.docs
            context == llm_calls[1].context
            n == Len(docs)
        IN  /\ Len(context) = IF n = 0 THEN 0 ELSE 2 * n - 1
            /\ \A i \in 1..n :
                 context[2 * i - 1] =
                    [kind |-> "source", n |-> i,
                     company |-> docs[i].metadata.company_name,
                     ticker |-> docs[i].metadata.ticker,
                     date |-> docs[i].metadata.filing_date,
                     section |-> docs[i].metadata.item_title,
                     content |-> docs[i].page_content]
            /\ \A i \in 1..(n - 1) : context[2 * i].kind = "separator"

\* three passages were rendered, two of them from the same source
C22_Witness ==
    /\ Answered
    /\ Len(call.retrieval.docs) = 3
    /\ Len(llm_calls[1].context) = 5
    /\ SourceKey(call.retrieval.docs[1]) = SourceKey(call.retrieval.docs[2])

\* the characters of an excerpt: those taken from the content and the ellipsis
ExcerptLength(excerpt) == excerpt.len + (IF excerpt.ellipsis THEN 3 ELSE 0)

\* C23: the excerpt of a citation is the passage content unchanged when that is
\* at most 200 characters long, and its first 200 characters followed by "..."
\* otherwise; no excerpt is longer than 203 characters.
C23_ExcerptBounded ==
    Answered =>
        \A n \in DOMAIN outcome.result.sources :
            LET excerpt == outcome.result.sources[n].excerpt
            IN  /\ ExcerptLength(excerpt) <= 203
                /\ \E i \in DOMAIN call.retrieval.docs :
                     LET content == call.retrieval.docs[i].page_content
                     IN  /\ excerpt.base = content.base
                         /\ IF content.len <= 200
                            THEN excerpt.len = content.len /\ ~excerpt.ellipsis
                            ELSE excerpt.len = 200 /\ excerpt.ellipsis

\* citations were built from a passage of exactly 200 characters and from a
\* longer one
C23_Witness ==
    /\ Answered
    /\ \E n, m \in DOMAIN outcome.result.sources :
         /\ outcome.result.sources[n].excerpt = [base |-> "c2", len |-> 200,
                                                 ellipsis |-> FALSE]
         /\ outcome.result.sources[m].excerpt.ellipsis

\* the index was asked and returned no passage
NothingRetrieved ==
    /\ Queried
    /\ retriever_log # <<>>
    /\ ~call.retrieval.raises
    /\ call.retrieval.docs = <<>>

\* C26: when the index returns no passage for a valid query, query returns a
\* result: the model is invoked once, with the empty context; sources is empty,
\* num_sources is 0 and the exchange is the last entry of the conversation log.
C26_EmptyRetrievalAnswered ==
    NothingRetrieved =>
        /\ outcome.kind = "returned"
        /\ Len(llm_calls) = 1
        /\ llm_calls[1].context = <<>>
        /\ outcome.result.sources = <<>>
        /\ outcome.result.num_sources = 0
        /\ chat_history # <<>>
        /\ chat_history[Len(chat_history)] =
              [question |-> QStrip(call.question), answer |-> outcome.result.answer]

\* a query filtered by a ticker found nothing and was answered
C26_Witness ==
    /\ NothingRetrieved
    /\ call.filter_ticker.present
    /\ outcome.kind = "returned"
    /\ outcome.result.answer = "analysis"

\* C29: in every result of query, num_sources is the number of entries of sources.
C29_NumSourcesCountsCitations ==
    Answered => outcome.result.num_sources = Len(outcome.result.sources)


\* C29 as amended: num_sources is the number of passages retrieved, not the number
\* of citations: sources holds one entry per distinct (ticker, filing_date,
\* item_number), so it is never longer than num_sources and exactly as long only
\* when no two retrieved passages share that tuple.
C29_NumSourcesCountsPassages ==
    Answered =>
        LET docs == call.retrieval.docs
            shared == \E i, j \in DOMAIN docs : i # j /\ SourceKey(docs[i]) = SourceKey(docs[j])
        IN  /\ outcome.result.num_sources = Len(docs)
            /\ Len(outcome.result.sources) <= outcome.result.num_sources
            /\ Len(outcome.result.sources) = outcome.result.num_sources <=> ~shared

\* three passages of one source were retrieved and cited once
C29_Witness ==
    /\ Answered
    /\ outcome.result.num_sources = 3
    /\ Len(outcome.result.sources) = 1

--------------------------------------------------------------------------
(* Claims about the metadata and the length of the passages *)

\* the keys chunk_section sets itself (preprocessor.py lines 82-88)
BookkeepingKeys == {"chunk_index", "chunk_id", "total_chunks", "chunk_size"}

PassageCounts ==
    \A i \in DOMAIN chunked.documents :
        /\ chunked.documents[i].metadata.total_chunks = Len(chunked.documents)
        /\ chunked.documents[i].metadata.chunk_size
             = Len(chunked.documents[i].page_content)

C25_PassageWithinChunkSize ==
    (ChunkedSection /\ chunker.chunk_overlap < chunker.chunk_size) =>
        \A i \in DOMAIN chunked.documents :
            Len(chunked.documents[i].page_content) <= chunker.chunk_size

\* a content of letters only, longer than the chunk size, split into several passages
C25_Witness ==
    /\ ChunkedSection
    /\ chunker.chunk_overlap < chunker.chunk_size
    /\ \A i \in DOMAIN chunked.content : chunked.content[i] = "a"
    /\ Len(chunked.content) > chunker.chunk_size
    /\ Len(chunked.documents) >= 2
    /\ \E i \in DOMAIN chunked.documents :
         Len(chunked.documents[i].page_content) = chunker.chunk_size

--------------------------------------------------------------------------
(* Claims about where a section ends *)

\* where the section of the i-th retained match ends
EndOfRetained(i) ==
    IF i = Len(parsed.unique) THEN Width(parsed.clean) ELSE parsed.unique[i + 1].start

Returned(n) == \E k \in DOMAIN parsed.sections : parsed.sections[k].item_number = n

\* C28: the retained matches are the first matches of their item numbers; every
\* returned section is the section of a retained match, starts where that match
\* starts and ends at the start of the next retained match in document order, or
\* at the length of the cleaned text after the last one, whether or not that next
\* match got a section of its own; the text from a retained match with no section
\* up to the next retained match lies in no returned section.
C28_SectionEndsAtNextRetained ==
    parsed.done =>
        /\ \A k \in DOMAIN parsed.sections :
             \E i \in DOMAIN parsed.unique :
                parsed.unique[i].item_num = parsed.sections[k].item_number
        /\ \A i \in DOMAIN parsed.unique :
             /\ parsed.unique[i].start = FirstStart(parsed.unique[i].item_num)
             /\ \A k \in DOMAIN parsed.sections :
                  IF parsed.sections[k].item_number = parsed.unique[i].item_num
                  THEN /\ parsed.sections[k].start_idx = parsed.unique[i].start
                       /\ parsed.sections[k].end_idx = EndOfRetained(i)
                  ELSE Returned(parsed.unique[i].item_num)
                       \/ parsed.sections[k].end_idx <= parsed.unique[i].start
                       \/ EndOfRetained(i) <= parsed.sections[k].start_idx

\* a returned section ends at a header that got no section of its own
C28_Witness ==
    /\ parsed.done
    /\ \E k \in DOMAIN parsed.sections :
         \E i \in DOMAIN parsed.unique :
            /\ ~Returned(parsed.unique[i].item_num)
            /\ parsed.sections[k].end_idx = parsed.unique[i].start
            /\ parsed.sections[k].start_idx < parsed.unique[i].start
            /\ parsed.unique[i].start < EndOfRetained(i)
            /\ parsed.sections[k].end_idx < Width(parsed.clean)

--------------------------------------------------------------------------
(* Claims about a processing run *)

ProcessedAll == chunked.op = "process_all_filings"

\* C30: over all the passages one run of process_all_filings produces, several
\* filings of one ticker with different filing dates included, the chunk_id
\* values are pairwise distinct.
C30_ChunkIdsDistinctAcrossRun ==
    ProcessedAll =>
        \A i, j \in DOMAIN chunked.documents :
            i # j => chunked.documents[i].metadata.chunk_id
                        # chunked.documents[j].metadata.chunk_id

--------------------------------------------------------------------------
(* Claims about concurrent calls *)

\* C27: under every interleaving of the steps of concurrent parse_filing and
\* chunk_section calls on one parser and one chunker, a call that has finished
\* holds the result the same call gives when run alone on its input, and the
\* fields of the parser and of the chunker are what their constructors set.
C27_ConcurrentCallsIndependent ==
    /\ parser = SEC10KParser
    /\ chunker.state = "built" =>
          chunker = DocumentChunker(chunker.args.chunk_size, chunker.args.chunk_overlap)
    /\ \A th \in Threads :
          threads[th].pc = "done" =>
             threads[th].result =
                IF threads[th].op = "parse_filing"
                THEN parse_filing(threads[th].raw).sections
                ELSE chunk_section(chunker, threads[th].content, threads[th].metadata)

\* two calls of the same method with different inputs, interleaved with each
\* other, have both finished with a result
C27_Witness ==
    \E th, o \in Threads :
        /\ th # o
        /\ threads[th].pc = "done" /\ threads[o].pc = "done"
        /\ threads[th].interleaved /\ threads[o].interleaved
        /\ threads[th].op = threads[o].op
        /\ threads[th].result # <<>> /\ threads[o].result # <<>>
        /\ threads[th].result # threads[o].result

====
